---- MODULE Spec2Model ----
(***************************************************************************)
(* Argparse-Interface: the group resolver (argui/ParserMap.py) and the     *)
(* form state engine (argui/Interface.py, and the earlier src/Interface.py)*)
(* as a state machine.                                                     *)
(*                                                                         *)
(* Python values are tagged records.  Python strings are sequences of      *)
(* tokens; the separator characters "_" and "-" are tokens of their own,   *)
(* so that f-string concatenation is \o and str.split / str.rsplit are     *)
(* computed on the text.  Typed text is a sequence of one-character tokens.*)
(***************************************************************************)
EXTENDS Integers, Sequences, FiniteSets, TLC

VARIABLES
    parser,      \* the argparse.ArgumentParser handed to the constructor
    groups,      \* return value of ParserMap.mapParserGroups
    groupMap,    \* ParserMap.groupMap (deliniateMappedActions result)
    _commands,   \* Interface._commands: dest -> value
    _listsData,  \* Interface._listsData: list id -> (action, items)
    pending,     \* actions compose() has still to hand to _buildActionInputs
    phase,       \* "constructed", "composing", "mounted"; resolver: "start", "mapped", "deliniated"
    widgets,     \* value shown by the Switch / Select / Input / TabbedContent of an action
    touched,     \* actions whose widget has posted a user event
    uuidCount,   \* number of uuid.uuid4() values drawn so far
    fault        \* exception that left a handler ("none" when no handler raised)

vars == <<parser, groups, groupMap, _commands, _listsData, pending, phase,
          widgets, touched, uuidCount, fault>>

----------------------------------------------------------------------------
(* Bounds *)

MaxUuid == 4        \* uuid4 values available to one session
MaxUserGroups == 2  \* user declared argument groups of a generated scope
MaxMutex == 2       \* mutually exclusive groups of a generated scope

----------------------------------------------------------------------------
(* Python values *)

None == [t |-> "none"]
PyBool(b) == [t |-> "bool", b |-> b]
PyInt(n) == [t |-> "int", i |-> n]
\* the float m / 10^e, e >= 0, with no trailing zero in m unless e = 0
PyFloat(m, e) == [t |-> "float", m |-> m, e |-> e]
PyStr(s) == [t |-> "str", s |-> s]
PyList(l) == [t |-> "list", l |-> l]
\* a dict in insertion order: sequence of [id, val]
PyDict(items) == [t |-> "dict", items |-> items]
\* textual.widgets.Select.BLANK
Blank == [t |-> "blank"]
\* argparse.SUPPRESS
Suppress == PyStr(<<"==SUPPRESS==">>)

\* bool(v)
Truthy(v) ==
    CASE v.t = "none" -> FALSE
      [] v.t = "bool" -> v.b
      [] v.t = "int" -> v.i # 0
      [] v.t = "float" -> v.m # 0
      [] v.t = "str" -> Len(v.s) > 0
      [] v.t = "list" -> Len(v.l) > 0
      [] v.t = "dict" -> Len(v.items) > 0
      [] OTHER -> TRUE

\* `v or None`
OrNone(v) == IF Truthy(v) THEN v ELSE None

----------------------------------------------------------------------------
(* Text *)

Digits == <<"0", "1", "2", "3", "4", "5", "6", "7", "8", "9">>
IsDigit(c) == \E i \in 1..10 : Digits[i] = c
DigitVal(c) == (CHOOSE i \in 1..10 : Digits[i] = c) - 1

RECURSIVE DigitsVal(_)
DigitsVal(s) ==
    IF s = <<>> THEN 0 ELSE 10 * DigitsVal(SubSeq(s, 1, Len(s) - 1)) + DigitVal(s[Len(s)])

AllDigits(s) == \A i \in 1..Len(s) : IsDigit(s[i])

RECURSIVE Pow10(_)
Pow10(n) == IF n = 0 THEN 1 ELSE 10 * Pow10(n - 1)

RECURSIVE NormFloat(_, _)
NormFloat(m, e) ==
    IF e > 0 /\ m % 10 = 0 THEN NormFloat(m \div 10, e - 1) ELSE PyFloat(m, e)

\* int(s) succeeds
IntParses(s) ==
    LET body == IF s # <<>> /\ s[1] = "-" THEN Tail(s) ELSE s
    IN  body # <<>> /\ AllDigits(body)

IntOf(s) ==
    IF s[1] = "-" THEN PyInt(0 - DigitsVal(Tail(s))) ELSE PyInt(DigitsVal(s))

DotAt(s) == IF \E i \in 1..Len(s) : s[i] = "." THEN CHOOSE i \in 1..Len(s) : s[i] = "." ELSE 0

\* float(s) succeeds
FloatParses(s) ==
    LET body == IF s # <<>> /\ s[1] = "-" THEN Tail(s) ELSE s
        d == DotAt(body)
        whole == IF d = 0 THEN body ELSE SubSeq(body, 1, d - 1)
        frac == IF d = 0 THEN <<>> ELSE SubSeq(body, d + 1, Len(body))
    IN  AllDigits(whole) /\ AllDigits(frac) /\ Len(whole) + Len(frac) > 0

FloatOf(s) ==
    LET neg == s[1] = "-"
        body == IF neg THEN Tail(s) ELSE s
        d == DotAt(body)
        whole == IF d = 0 THEN body ELSE SubSeq(body, 1, d - 1)
        frac == IF d = 0 THEN <<>> ELSE SubSeq(body, d + 1, Len(body))
        m == DigitsVal(whole) * Pow10(Len(frac)) + DigitsVal(frac)
    IN  NormFloat(IF neg THEN 0 - m ELSE m, Len(frac))

RECURSIVE IntDigits(_)
IntDigits(n) ==
    IF n < 10 THEN <<Digits[n + 1]>> ELSE IntDigits(n \div 10) \o <<Digits[(n % 10) + 1]>>

RECURSIVE PadDigits(_, _)
PadDigits(s, n) == IF Len(s) >= n THEN s ELSE PadDigits(<<"0">> \o s, n)

\* str(v) for the values a default can hold
Str(v) ==
    CASE v.t = "str" -> v.s
      [] v.t = "int" ->
            IF v.i < 0 THEN <<"-">> \o IntDigits(0 - v.i) ELSE IntDigits(v.i)
      [] v.t = "float" ->
            LET a == IF v.m < 0 THEN 0 - v.m ELSE v.m
                p == Pow10(v.e)
                text == IntDigits(a \div p) \o <<".">> \o
                        (IF v.e = 0 THEN <<"0">> ELSE PadDigits(IntDigits(a % p), v.e))
            IN  IF v.m < 0 THEN <<"-">> \o text ELSE text
      [] v.t = "bool" -> IF v.b THEN <<"True">> ELSE <<"False">>
      [] OTHER -> <<"None">>

\* s.split(sep)
RECURSIVE Split(_, _)
Split(s, sep) ==
    IF \E i \in 1..Len(s) : s[i] = sep
    THEN LET i == CHOOSE i \in 1..Len(s) : s[i] = sep /\ \A j \in 1..(i - 1) : s[j] # sep
         IN  <<SubSeq(s, 1, i - 1)>> \o Split(SubSeq(s, i + 1, Len(s)), sep)
    ELSE <<s>>

\* s.rsplit(sep, 1)[-1]
RSplitLast(s, sep) ==
    IF \E i \in 1..Len(s) : s[i] = sep
    THEN LET i == CHOOSE i \in 1..Len(s) : s[i] = sep /\ \A j \in (i + 1)..Len(s) : s[j] # sep
         IN  SubSeq(s, i + 1, Len(s))
    ELSE s

\* str(uuid.uuid4()): the n-th value drawn, never equal to an earlier one
UuidTokens == <<"u1", "u2", "u3", "u4", "u5", "u6", "u7", "u8", "u9">>
uuid4(n) == <<UuidTokens[n]>>

----------------------------------------------------------------------------
(* Ordered dicts: sequences of [key, val] *)

DictHas(d, k) == \E i \in 1..Len(d) : d[i].key = k
DictIdx(d, k) == CHOOSE i \in 1..Len(d) : d[i].key = k
DictGet(d, k) == d[DictIdx(d, k)].val
\* d[k] = v
DictSet(d, k, v) ==
    IF DictHas(d, k) THEN [d EXCEPT ![DictIdx(d, k)].val = v]
    ELSE Append(d, [key |-> k, val |-> v])
\* del d[k]
DictDel(d, k) ==
    LET i == DictIdx(d, k) IN SubSeq(d, 1, i - 1) \o SubSeq(d, i + 1, Len(d))
DictKeys(d) == {d[i].key : i \in 1..Len(d)}

SeqSet(s) == {s[i] : i \in 1..Len(s)}

RECURSIVE Concat(_)
Concat(ss) == IF ss = <<>> THEN <<>> ELSE Head(ss) \o Concat(Tail(ss))

RECURSIVE FilterSeq(_, _)
FilterSeq(s, keep) ==
    IF s = <<>> THEN <<>>
    ELSE (IF Head(s) \in keep THEN <<Head(s)>> ELSE <<>>) \o FilterSeq(Tail(s), keep)

----------------------------------------------------------------------------
(* argparse objects.  An action is named; Action(name) is the object. *)

PosTitle == PyStr(<<"positional arguments">>)
OptTitle == PyStr(<<"options">>)

Opt(long) == PyStr(<<"-", "-">> \o long)

MkAction(cls, dest, opts, req, default, choices, nargs, type) ==
    [cls |-> cls, dest |-> dest, option_strings |-> PyList(opts), required |-> req,
     default |-> default, choices |-> choices, nargs |-> nargs, type |-> type]

StoreTrue(dest) ==
    MkAction("_StoreTrueAction", dest, <<Opt(dest)>>, FALSE, PyBool(FALSE), None, PyInt(0), "none")
StoreFalse(dest) ==
    MkAction("_StoreFalseAction", dest, <<Opt(dest)>>, FALSE, PyBool(TRUE), None, PyInt(0), "none")
Store(dest, type, default) ==
    MkAction("_StoreAction", dest, <<Opt(dest)>>, FALSE, default, None, None, type)
Positional(dest, type) ==
    MkAction("_StoreAction", dest, <<>>, TRUE, None, None, None, type)
Choice(dest, type, choices) ==
    MkAction("_StoreAction", dest, <<Opt(dest)>>, FALSE, None, PyList(choices), None, type)
ListOpt(dest, nargs, type, default) ==
    MkAction("_StoreAction", dest, <<Opt(dest)>>, FALSE, default, None, PyStr(<<nargs>>), type)
\* add_subparsers(dest=...): choices maps a parser key to a parser name
SubParsers(dest, items) ==
    MkAction("_SubParsersAction", dest, <<>>, FALSE, None,
             [t |-> "parsers", items |-> items], PyStr(<<"A...">>), "none")
Help ==
    MkAction("_HelpAction", <<"help">>, <<PyStr(<<"-", "h">>), Opt(<<"help">>)>>, FALSE,
             Suppress, None, PyInt(0), "none")

GuiFlag == PyStr(<<"-", "-", "gui">>)

ActionDef(name) ==
    CASE name = "verbose" -> StoreTrue(<<"verbose">>)
      [] name = "quiet" -> StoreFalse(<<"quiet">>)
      [] name = "mode" -> Choice(<<"mode">>, "none", <<PyStr(<<"fast">>), PyStr(<<"slow">>)>>)
      [] name = "count" -> Positional(<<"count">>, "int")
      [] name = "ratio" -> Store(<<"ratio">>, "float", PyFloat(5, 1))
      [] name = "name" -> Store(<<"name">>, "none", None)
      \* root of "sub": --string and the selector `command`
      [] name = "string" -> Store(<<"string">>, "str", None)
      [] name = "command" ->
            SubParsers(<<"command">>, <<[key |-> <<"foo">>, parser |-> "foo"],
                                        [key |-> <<"bar">>, parser |-> "bar"]>>)
      [] name = "foo.x" -> Store(<<"x">>, "int", PyInt(1))
      [] name = "foo.sub" ->
            SubParsers(<<"sub">>, <<[key |-> <<"deep">>, parser |-> "deep"],
                                    [key |-> <<"flat">>, parser |-> "flat"]>>)
      [] name = "deep.z" -> StoreTrue(<<"z">>)
      [] name = "bar.string" -> Store(<<"string">>, "str", None)
      \* root of "siblings": both sub-parsers declare dest x
      [] name = "pick" ->
            SubParsers(<<"pick">>, <<[key |-> <<"left">>, parser |-> "left"],
                                     [key |-> <<"right">>, parser |-> "right"]>>)
      [] name = "left.x" -> Store(<<"x">>, "int", PyInt(1))
      [] name = "right.x" -> Store(<<"x">>, "str", None)
      \* lists
      [] name = "tags" -> ListOpt(<<"tags">>, "+", "none", PyList(<<PyStr(<<"a">>), PyStr(<<"b">>)>>))
      [] name = "nums" -> ListOpt(<<"nums">>, "*", "int", None)
      [] name = "default_list" ->
            ListOpt(<<"default", "_", "list">>, "+", "int", PyList(<<PyInt(69), PyInt(420)>>))
      \* required mutually exclusive group {modeA, modeB}
      [] name = "m.count" -> Positional(<<"count">>, "int")
      [] name = "modeA" -> Store(<<"modeA">>, "none", None)
      [] name = "modeB" -> Store(<<"modeB">>, "none", None)
      \* what Wrapper hands over: help and the gui flag
      [] name = "help" -> Help
      [] name = "w.name" -> Store(<<"name">>, "none", None)
      [] name = "gui" -> StoreTrue(<<"gui">>)
      \* root of "alias": --name and --alias write the same destination
      [] name = "al.name" -> Store(<<"name">>, "none", PyStr(<<"x">>))
      [] name = "al.alias" ->
            [Store(<<"name">>, "none", None) EXCEPT !.option_strings = PyList(<<Opt(<<"alias">>)>>)]
      \* root of "other": action="count", action="store_const" and action="append"
      [] name = "level" ->
            MkAction("_CountAction", <<"level">>, <<Opt(<<"level">>)>>, FALSE, None, None, PyInt(0), "none")
      [] name = "const" ->
            MkAction("_StoreConstAction", <<"const">>, <<Opt(<<"const">>)>>, FALSE, None, None, PyInt(0), "none")
      [] name = "append" ->
            MkAction("_AppendAction", <<"append">>, <<Opt(<<"append">>)>>, FALSE, None, None, None, "none")
      \* what Wrapper hands over with the gui flags -g and --my-gui
      [] name = "g.name" -> Store(<<"name">>, "none", None)
      [] name = "gui.g" ->
            [StoreTrue(<<"g">>) EXCEPT !.option_strings = PyList(<<PyStr(<<"-", "g">>)>>)]
      [] name = "my.name" -> Store(<<"name">>, "none", None)
      [] name = "gui.my" ->
            [StoreTrue(<<"my", "_", "gui">>) EXCEPT
                !.option_strings = PyList(<<PyStr(<<"-", "-", "my", "-", "gui">>)>>)]
      \* actions handed to an InputList: nargs=2, nargs=3 and nargs="+"
      [] name = "fixed2" -> [ListOpt(<<"fixed2">>, "+", "int", None) EXCEPT !.nargs = PyInt(2)]
      [] name = "fixed3" -> [ListOpt(<<"fixed3">>, "+", "int", None) EXCEPT !.nargs = PyInt(3)]
      [] name = "many" -> ListOpt(<<"many">>, "+", "int", None)
      \* actions of the generated scopes of the group resolver
      [] name = "r.pos" -> Positional(<<"pos">>, "none")
      [] name = "r.a" -> Store(<<"a">>, "none", None)
      [] name = "r.b" -> Store(<<"b">>, "none", None)
      [] name = "r.req" -> [Store(<<"req">>, "none", None) EXCEPT !.required = TRUE]
      [] name = "r.a2" -> [Store(<<"a">>, "none", None) EXCEPT !.option_strings = PyList(<<Opt(<<"a2">>)>>)]
      \* add_argument("opos", nargs="?"): a positional that is not required
      [] name = "r.opos" ->
            MkAction("_StoreAction", <<"opos">>, <<>>, FALSE, None, None, PyStr(<<"?">>), "none")

ActionNames ==
    {"verbose", "quiet", "mode", "count", "ratio", "name", "string", "command", "foo.x",
     "foo.sub", "deep.z", "bar.string", "pick", "left.x", "right.x", "tags", "nums",
     "default_list", "m.count", "modeA", "modeB", "help", "w.name", "gui",
     "al.name", "al.alias", "level", "const", "append", "g.name", "gui.g", "my.name", "gui.my",
     "fixed2", "fixed3", "many"}

ResolverActionNames == {"r.pos", "r.a", "r.b", "r.req", "r.a2", "r.opos"}

ActionTable == [name \in ActionNames \cup ResolverActionNames |-> ActionDef(name)]
Action(name) == ActionTable[name]

IsPositional(name) == Len(Action(name).option_strings.l) = 0

\* a parser whose actions all sit in argparse's two default groups; its actions'
\* default values are part of the parser object
MkParser(prog, actions, mutex) ==
    [prog |-> prog, _actions |-> actions,
     _action_groups |->
        <<[title |-> PosTitle,
           _group_actions |-> FilterSeq(actions, {a \in SeqSet(actions) : IsPositional(a)})],
          [title |-> OptTitle,
           _group_actions |-> FilterSeq(actions, {a \in SeqSet(actions) : ~IsPositional(a)})]>>,
     _mutually_exclusive_groups |-> mutex,
     defaults |-> [a \in SeqSet(actions) |-> ActionDef(a).default]]

ParserDef(name) ==
    CASE name = "kinds" -> MkParser("kinds", <<"verbose", "quiet", "mode", "count", "ratio", "name">>, <<>>)
      [] name = "sub" -> MkParser("sub", <<"string", "command">>, <<>>)
      [] name = "foo" -> MkParser("foo", <<"foo.x", "foo.sub">>, <<>>)
      [] name = "deep" -> MkParser("deep", <<"deep.z">>, <<>>)
      [] name = "flat" -> MkParser("flat", <<>>, <<>>)
      [] name = "bar" -> MkParser("bar", <<"bar.string">>, <<>>)
      [] name = "siblings" -> MkParser("siblings", <<"pick">>, <<>>)
      [] name = "left" -> MkParser("left", <<"left.x">>, <<>>)
      [] name = "right" -> MkParser("right", <<"right.x">>, <<>>)
      [] name = "tags" -> MkParser("tags", <<"tags">>, <<>>)
      [] name = "nums" -> MkParser("nums", <<"nums">>, <<>>)
      [] name = "ulist" -> MkParser("ulist", <<"default_list">>, <<>>)
      [] name = "mutex" ->
            MkParser("mutex", <<"m.count", "modeA", "modeB">>,
                     <<[required |-> TRUE, _group_actions |-> <<"modeA", "modeB">>]>>)
      [] name = "wrapped" -> MkParser("wrapped", <<"help", "w.name", "gui">>, <<>>)
      [] name = "wrapped.g" -> MkParser("wrapped.g", <<"g.name", "gui.g">>, <<>>)
      [] name = "wrapped.my" -> MkParser("wrapped.my", <<"my.name", "gui.my">>, <<>>)
      [] name = "other" -> MkParser("other", <<"level", "const", "append">>, <<>>)
      [] name = "alias" -> MkParser("alias", <<"al.name", "al.alias">>, <<>>)
      [] name = "fixed2" -> MkParser("fixed2", <<"fixed2">>, <<>>)
      [] name = "fixed3" -> MkParser("fixed3", <<"fixed3">>, <<>>)
      [] name = "many" -> MkParser("many", <<"many">>, <<>>)

ParserNames ==
    {"kinds", "sub", "foo", "deep", "flat", "bar", "siblings", "left", "right",
     "tags", "nums", "ulist", "mutex", "wrapped", "wrapped.g", "wrapped.my", "alias",
     "other", "fixed2", "fixed3", "many"}
ParserTable == [name \in ParserNames |-> ParserDef(name)]
Parser(name) == ParserTable[name]

\* the parsers an Interface is constructed with
RootParsers ==
    {"kinds", "sub", "siblings", "tags", "nums", "ulist", "mutex", "wrapped", "alias",
     "other"}

----------------------------------------------------------------------------
(* ParserMap: the group resolver *)

Dests(actions) == [i \in 1..Len(actions) |-> Action(actions[i]).dest]

\* the first loop with every action entered under the title of the first group
RECURSIVE MapActionGroupsMerged(_, _)
MapActionGroupsMerged(actionGroups, st) ==
    IF actionGroups = <<>> THEN st
    ELSE LET group == Head(actionGroups)
             title == IF st.groups = <<>> THEN group.title ELSE st.groups[1].key
             held == IF st.groups = <<>> THEN <<>> ELSE st.groups[1].val
             RECURSIVE Own(_, _)
             Own(actions, owned) ==
                IF actions = <<>> THEN owned
                ELSE Own(Tail(actions), DictSet(owned, Action(Head(actions)).dest, title))
         IN  MapActionGroupsMerged(Tail(actionGroups),
                [groups |-> DictSet(st.groups, title, held \o group._group_actions),
                 ownedDests |-> Own(group._group_actions, st.ownedDests)])

\* first loop of mapParserGroups: one entry per action group, keyed by title
RECURSIVE MapActionGroups(_, _)
MapActionGroups(actionGroups, st) ==
    IF actionGroups = <<>> THEN st
    ELSE LET group == Head(actionGroups)
             RECURSIVE Own(_, _)
             Own(actions, owned) ==
                IF actions = <<>> THEN owned
                ELSE Own(Tail(actions), DictSet(owned, Action(Head(actions)).dest, group.title))
         IN  MapActionGroups(Tail(actionGroups),
                [groups |-> DictSet(st.groups, group.title, group._group_actions),
                 ownedDests |-> Own(group._group_actions, st.ownedDests)])

\* list.remove(x)
ListRemove(l, x) ==
    LET i == CHOOSE i \in 1..Len(l) : l[i] = x /\ \A j \in 1..(i - 1) : l[j] # x
    IN  SubSeq(l, 1, i - 1) \o SubSeq(l, i + 1, Len(l))

\* inner loop of the second loop: relocate the members owned by "options"
RECURSIVE RelocateMembers(_, _, _, _)
RelocateMembers(actions, groupId, ownedDests, st) ==
    IF actions = <<>> \/ st.raised # "none" THEN st
    ELSE LET action == Head(actions)
             dest == Action(action).dest
         IN  IF DictHas(ownedDests, dest) /\ DictGet(ownedDests, dest) = OptTitle
             THEN IF ~DictHas(st.groups, OptTitle)
                  THEN [st EXCEPT !.raised = "KeyError"]
                  ELSE IF action \notin SeqSet(DictGet(st.groups, OptTitle))
                  THEN [st EXCEPT !.raised = "ValueError"]
                  ELSE RelocateMembers(Tail(actions), groupId, ownedDests,
                         [st EXCEPT !.groups =
                            DictSet(DictSet(st.groups, OptTitle,
                                            ListRemove(DictGet(st.groups, OptTitle), action)),
                                    groupId, Append(DictGet(st.groups, groupId), action))])
             ELSE RelocateMembers(Tail(actions), groupId, ownedDests, st)

\* the second loop with the entries nothing was relocated into left in the map
RECURSIVE MapMutExGroupsKeepEmpty(_, _, _, _)
MapMutExGroupsKeepEmpty(mutExGroups, n, ownedDests, st) ==
    IF mutExGroups = <<>> \/ st.raised # "none" THEN st
    ELSE LET groupId == PyStr(<<"noTitle", "_">> \o uuid4(n))
             moved == RelocateMembers(Head(mutExGroups)._group_actions, groupId, ownedDests,
                                      [st EXCEPT !.groups = DictSet(st.groups, groupId, <<>>)])
         IN  MapMutExGroupsKeepEmpty(Tail(mutExGroups), n + 1, ownedDests, moved)

\* second loop of mapParserGroups: one entry per mutually exclusive group,
\* keyed by a generated id, dropped again when nothing was relocated into it
RECURSIVE MapMutExGroups(_, _, _, _)
MapMutExGroups(mutExGroups, n, ownedDests, st) ==
    IF mutExGroups = <<>> \/ st.raised # "none" THEN st
    ELSE LET groupId == PyStr(<<"noTitle", "_">> \o uuid4(n))
             moved == RelocateMembers(Head(mutExGroups)._group_actions, groupId, ownedDests,
                                      [st EXCEPT !.groups = DictSet(st.groups, groupId, <<>>)])
             kept == IF moved.raised = "none" /\ Len(DictGet(moved.groups, groupId)) = 0
                     THEN [moved EXCEPT !.groups = DictDel(moved.groups, groupId)]
                     ELSE moved
         IN  MapMutExGroups(Tail(mutExGroups), n + 1, ownedDests, kept)

\* ParserMap.mapParserGroups: [raised, groups]; groups is {title: [action, ...]}
mapParserGroups(p) ==
    LET first == MapActionGroups(p._action_groups, [groups |-> <<>>, ownedDests |-> <<>>])
    IN  MapMutExGroups(p._mutually_exclusive_groups, 1, first.ownedDests,
                       [raised |-> "none", groups |-> first.groups])

\* the split with a required action entered in both lists
RECURSIVE PartitionActionsBoth(_, _)
PartitionActionsBoth(actions, out) ==
    IF actions = <<>> THEN out
    ELSE LET action == Head(actions)
         IN  PartitionActionsBoth(Tail(actions),
                IF Action(action).required \/ Len(Action(action).option_strings.l) = 0
                THEN [out EXCEPT !.required = Append(@, action), !.optional = Append(@, action)]
                ELSE [out EXCEPT !.optional = Append(@, action)])

\* the required / optional split of one group's actions
RECURSIVE PartitionActions(_, _)
PartitionActions(actions, out) ==
    IF actions = <<>> THEN out
    ELSE LET action == Head(actions)
         IN  PartitionActions(Tail(actions),
                IF Action(action).required \/ Len(Action(action).option_strings.l) = 0
                THEN [out EXCEPT !.required = Append(@, action)]
                ELSE [out EXCEPT !.optional = Append(@, action)])

\* ParserMap.deliniateMappedActions: {title: {required: [...], optional: [...]}}
deliniateMappedActions(p, gm) ==
    LET mutExGroupDests ==
            {Dests(p._mutually_exclusive_groups[i]._group_actions) :
                i \in 1..Len(p._mutually_exclusive_groups)}
    IN  [i \in 1..Len(gm) |->
            [key |-> gm[i].key,
             val |-> IF Dests(gm[i].val) \in mutExGroupDests
                     THEN [required |-> gm[i].val, optional |-> <<>>]
                     ELSE PartitionActions(gm[i].val, [required |-> <<>>, optional |-> <<>>])]]

\* ParserMap.__init__: groupMap of a parser whose groups could be mapped
ParserMapGroupMap(p) ==
    LET mapped == mapParserGroups(p)
    IN  IF mapped.raised = "none" THEN deliniateMappedActions(p, mapped.groups) ELSE <<>>

----------------------------------------------------------------------------
(* Parser scopes argparse can build, for the resolver *)

ScopeOptionals == <<"r.a", "r.b", "r.req">>
\* only an action that is not required can join a mutually exclusive group
ScopeExclusive == {"r.a", "r.b"}
ScopeTitles == {PyStr(<<"G">>), None, OptTitle}

\* what a scope has beyond the actions above: nothing, the option --a2 with
\* dest "a" declared last (in the last user group when there is one), or the
\* optional positional opos declared first in the first exclusive group
ScopeExtras == {"none", "dup", "pos"}

Scope(ng, place, titles, nm, mutexOf, mreq, extra) ==
    LET InGroup(g) ==
            FilterSeq(ScopeOptionals, {a \in SeqSet(ScopeOptionals) : place[a] = g})
            \o (IF extra = "dup" /\ g = ng THEN <<"r.a2">> ELSE <<>>)
    IN  [prog |-> "scope",
         _actions |-> (IF extra = "pos" THEN <<"r.opos">> ELSE <<>>) \o <<"r.pos">>
                      \o ScopeOptionals \o (IF extra = "dup" THEN <<"r.a2">> ELSE <<>>),
         _action_groups |->
            <<[title |-> PosTitle,
               _group_actions |-> (IF extra = "pos" THEN <<"r.opos">> ELSE <<>>) \o <<"r.pos">>],
              [title |-> OptTitle, _group_actions |-> InGroup(0)]>>
            \o [g \in 1..ng |-> [title |-> titles[g], _group_actions |-> InGroup(g)]],
         _mutually_exclusive_groups |->
            [k \in 1..nm |->
                [required |-> mreq[k],
                 _group_actions |->
                    (IF extra = "pos" /\ k = 1 THEN <<"r.opos">> ELSE <<>>)
                    \o FilterSeq(ScopeOptionals, {a \in ScopeExclusive : mutexOf[a] = k})]],
         defaults |-> [a \in {"r.opos", "r.pos", "r.a2"} \cup SeqSet(ScopeOptionals) |->
                          ActionDef(a).default]]

\* an exclusive group is declared on one container: its members share their group
SameContainer(place, mutexOf) ==
    \A a, b \in ScopeExclusive :
        (mutexOf[a] # 0 /\ mutexOf[a] = mutexOf[b]) => place[a] = place[b]

\* a positional of an exclusive group declared on the parser sits in the
\* parser's own bucket: the other members do too
PositionalOnParser(nm, place, mutexOf, extra) ==
    extra = "pos" => (nm >= 1 /\ \A a \in ScopeExclusive : mutexOf[a] = 1 => place[a] = 0)

----------------------------------------------------------------------------
(* The resolver as a state machine: ParserMap.__init__ on a generated scope *)

EmptyMap == [k \in {} |-> None]
Unmapped == [raised |-> "unset", groups |-> <<>>]

NoInterface ==
    /\ _commands = EmptyMap
    /\ _listsData = EmptyMap
    /\ pending = <<>>
    /\ widgets = EmptyMap
    /\ touched = {}
    /\ uuidCount = 0
    /\ fault = "none"

InitResolver ==
    /\ \E ng \in 0..MaxUserGroups, nm \in 0..MaxMutex :
         \E place \in [SeqSet(ScopeOptionals) -> 0..ng], titles \in [1..ng -> ScopeTitles],
            mreq \in [1..nm -> BOOLEAN], mutexOf \in [ScopeExclusive -> 0..nm],
            extra \in ScopeExtras :
            /\ SameContainer(place, mutexOf)
            /\ PositionalOnParser(nm, place, mutexOf, extra)
            /\ parser = Scope(ng, place, titles, nm, mutexOf, mreq, extra)
    /\ groups = Unmapped
    /\ groupMap = <<>>
    /\ phase = "start"
    /\ NoInterface

MapParserGroups ==
    /\ phase = "start"
    /\ groups' = mapParserGroups(parser)
    /\ phase' = "mapped"
    /\ UNCHANGED <<parser, groupMap, _commands, _listsData, pending, widgets, touched,
                   uuidCount, fault>>

DeliniateMappedActions ==
    /\ phase = "mapped"
    /\ groups.raised = "none"
    /\ groupMap' = deliniateMappedActions(parser, groups.groups)
    /\ phase' = "deliniated"
    /\ UNCHANGED <<parser, groups, _commands, _listsData, pending, widgets, touched,
                   uuidCount, fault>>

NextResolver == MapParserGroups \/ DeliniateMappedActions

SpecResolver == InitResolver /\ [][NextResolver]_vars

----------------------------------------------------------------------------
(* Interface: pure helpers *)

MapSet(f, k, v) == [x \in DOMAIN f \cup {k} |-> IF x = k THEN v ELSE f[x]]

\* text the user can leave in an Input
RawTexts == {<<>>, <<"7">>, <<"7", ".", "5">>, <<"a">>}

\* ParserMap.excludeActionByDest
excludeActionByDest(actions, keepHelp, excludes) ==
    LET Keep(a) ==
            ~(\/ \E i \in 1..Len(excludes.l) : excludes.l[i] = Action(a).option_strings
              \/ (Action(a).cls = "_HelpAction" /\ keepHelp))
    IN  SelectSeq(actions, Keep)

\* Interface._onlyValidActions
_onlyValidActions(actions) == excludeActionByDest(actions, FALSE, PyList(<<GuiFlag>>))

\* the valid destinations with every sub-parser taken as selected
RECURSIVE _getValidDestsAll(_, _)
_getValidDestsAll(p, cmds) ==
    LET valid == _onlyValidActions(p._actions)
        Sub(action) ==
            IF action.dest \in DOMAIN cmds
            THEN <<action.dest>> \o
                 Concat([j \in 1..Len(action.choices.items) |->
                    _getValidDestsAll(Parser(action.choices.items[j].parser), cmds)])
            ELSE <<>>
    IN  Concat([i \in 1..Len(valid) |->
            IF Action(valid[i]).cls = "_SubParsersAction"
            THEN Sub(Action(valid[i]))
            ELSE <<Action(valid[i]).dest>>])

\* Interface._getValidDests
RECURSIVE _getValidDests(_, _)
_getValidDests(p, cmds) ==
    LET valid == _onlyValidActions(p._actions)
        Sub(action) ==
            IF action.dest \in DOMAIN cmds
            THEN Concat([j \in 1..Len(action.choices.items) |->
                    IF cmds[action.dest] = PyStr(action.choices.items[j].key)
                    THEN <<action.dest>> \o
                         _getValidDests(Parser(action.choices.items[j].parser), cmds)
                    ELSE <<>>])
            ELSE <<>>
    IN  Concat([i \in 1..Len(valid) |->
            IF Action(valid[i]).cls = "_SubParsersAction"
            THEN Sub(Action(valid[i]))
            ELSE <<Action(valid[i]).dest>>])

DictValues(d) == [i \in 1..Len(d) |-> d[i].val]

\* getArgs that reports every valid destination, without an entry as None
getArgsOfEveryDest(p, cmds, lists) ==
    LET validDests == SeqSet(_getValidDests(p, cmds))
    IN  [k \in validDests |->
            IF k \notin DOMAIN cmds THEN None
            ELSE IF k \in DOMAIN lists /\ cmds[k].t = "dict"
            THEN PyList(DictValues(cmds[k].items))
            ELSE cmds[k]]

\* Interface.getArgs (argui): the Namespace as a mapping dest -> value
getArgsOf(p, cmds, lists) ==
    LET validDests == SeqSet(_getValidDests(p, cmds))
    IN  [k \in {d \in DOMAIN cmds : d \in validDests} |->
            IF k \in DOMAIN lists /\ cmds[k].t = "dict"
            THEN PyList(DictValues(cmds[k].items))
            ELSE cmds[k]]

getArgs == getArgsOf(parser, _commands, _listsData)

\* Interface._typedStringToValue
_typedStringToValue(s, inputType) ==
    CASE inputType = "integer" -> IF IntParses(s) THEN IntOf(s) ELSE None
      [] inputType = "number" -> IF FloatParses(s) THEN FloatOf(s) ELSE None
      [] OTHER -> PyStr(s)

\* the Input type _buildActionInputs / _buildListInputItem pick for an action
InputType(action) ==
    IF action.type = "int" THEN "integer"
    ELSE IF action.type = "float" THEN "number" ELSE "text"

\* Interface._createInput: the text the new Input shows
_createInput(value) == IF value # None THEN Str(value) ELSE <<>>

IsSwitch(action) == action.cls \in {"_StoreTrueAction", "_StoreFalseAction"}
IsSelector(action) == action.cls = "_SubParsersAction"
IsDropdown(action) == action.cls = "_StoreAction" /\ action.choices # None
IsList(action) ==
    /\ action.cls = "_StoreAction" /\ action.choices = None
    /\ action.nargs \in {PyStr(<<"+">>), PyStr(<<"*">>)}
IsTyped(action) ==
    action.cls = "_StoreAction" /\ action.choices = None /\ ~IsList(action)

\* _buildListInputItem that enters the new item before the others
_buildListInputItemFirst(cmds, id, action, value) ==
    [cmds |-> [cmds EXCEPT ![action.dest] =
                  IF @.t = "dict" THEN PyDict(<<[key |-> id, val |-> value]>> \o @.items)
                  ELSE PyDict(<<[key |-> id, val |-> value]>>)],
     item |-> [name |-> action.dest \o <<"_">> \o id, value |-> _createInput(value)]]

\* Interface._buildListInputItem: the entry after the item is entered, and the item
_buildListInputItem(cmds, id, action, value) ==
    [cmds |-> [cmds EXCEPT ![action.dest] =
                  IF @.t = "dict" THEN PyDict(DictSet(@.items, id, value))
                  ELSE PyDict(<<[key |-> id, val |-> value]>>)],
     item |-> [name |-> action.dest \o <<"_">> \o id, value |-> _createInput(value)]]

\* the loop of Interface._buildListInput over the default values
RECURSIVE SeedListItems(_, _, _, _)
SeedListItems(values, n, action, st) ==
    IF values = <<>> THEN st
    ELSE LET itemId == uuid4(n + 1)
             built == _buildListInputItem(st.cmds, itemId, action, Head(values))
         IN  SeedListItems(Tail(values), n + 1, action,
                [cmds |-> built.cmds,
                 items |-> DictSet(st.items, itemId, built.item),
                 cmdUpdate |-> DictSet(st.cmdUpdate, itemId, Head(values))])

\* Interface._buildListInput: _commands and the record entered in _listsData
_buildListInput(cmds, n, name) ==
    LET action == Action(name)
        seeded == SeedListItems(cmds[action.dest].l, n, action,
                                [cmds |-> cmds, items |-> <<>>, cmdUpdate |-> <<>>])
    IN  IF cmds[action.dest].t = "list"
        THEN [cmds |-> [seeded.cmds EXCEPT ![action.dest] = PyDict(seeded.cmdUpdate)],
              record |-> [action |-> name, items |-> seeded.items],
              drawn |-> Len(cmds[action.dest].l)]
        ELSE [cmds |-> cmds, record |-> [action |-> name, items |-> <<>>], drawn |-> 0]

\* Interface._buildParserInterface: the order in which the root actions are built
BuildOrder(gm) ==
    Concat([i \in 1..Len(gm) |->
        _onlyValidActions(gm[i].val.required) \o _onlyValidActions(gm[i].val.optional)])

\* Interface._buildSubparserGroup: the actions of every sub-parser, tab by tab
SubparserActions(action) ==
    Concat([j \in 1..Len(action.choices.items) |->
        _onlyValidActions(Parser(action.choices.items[j].parser)._actions)])

\* the value the widget of a newly built action shows
InitialWidget(action) ==
    CASE IsSwitch(action) -> PyBool(action.cls = "_StoreTrueAction")
      [] IsDropdown(action) ->
            IF action.default # None THEN action.default ELSE action.choices.l[1]
      [] IsTyped(action) -> PyStr(_createInput(OrNone(action.default)))
      [] IsSelector(action) /\ Len(action.choices.items) > 0 ->
            PyStr(action.choices.items[1].key)
      [] OTHER -> None

\* the parser an action was added to
ContainerOf ==
    [name \in ActionNames |-> CHOOSE q \in ParserNames : name \in SeqSet(Parser(q)._actions)]
Container(name) == ContainerOf[name]

\* the tab panes: selector action, key of the tab, sub-parser shown in it
Panes ==
    UNION {{[sel |-> n, key |-> Action(n).choices.items[j].key,
             parser |-> Action(n).choices.items[j].parser] :
                j \in 1..Len(Action(n).choices.items)} :
           n \in {m \in ActionNames : IsSelector(Action(m))}}
PaneOf == [q \in ParserNames |-> {pane \in Panes : pane.parser = q}]

\* the widget of an action is on screen: every tab on the way to it is the active one
RECURSIVE OnScreen(_, _)
OnScreen(q, w) ==
    \/ q = parser.prog
    \/ \E pane \in PaneOf[q] :
          /\ pane.sel \in DOMAIN w
          /\ w[pane.sel] = PyStr(pane.key)
          /\ OnScreen(Container(pane.sel), w)
Visible(name, w) == OnScreen(Container(name), w)

----------------------------------------------------------------------------
(* Interface: construction and compose() *)

Init ==
    /\ parser \in {Parser(n) : n \in RootParsers}
    /\ groups = mapParserGroups(parser)
    /\ groupMap = ParserMapGroupMap(parser)
    /\ _commands = EmptyMap
    /\ _listsData = EmptyMap
    /\ pending = <<>>
    /\ phase = "constructed"
    /\ widgets = EmptyMap
    /\ touched = {}
    /\ uuidCount = Len(parser._mutually_exclusive_groups)
    /\ fault = "none"

\* Interface.compose up to the first action
compose ==
    /\ phase = "constructed"
    /\ phase' = "composing"
    /\ pending' = BuildOrder(groupMap)
    /\ UNCHANGED <<parser, groups, groupMap, _commands, _listsData, widgets, touched,
                   uuidCount, fault>>

\* one pass of the loop of Interface._buildActionInputs
_buildActionInputs ==
    /\ phase = "composing"
    /\ pending # <<>>
    /\ LET name == Head(pending)
           action == Action(name)
           cmds == MapSet(_commands, action.dest, OrNone(action.default))
           list == _buildListInput(cmds, uuidCount, name)
       IN  /\ _commands' = IF IsList(action) THEN list.cmds ELSE cmds
           /\ _listsData' = IF IsList(action)
                            THEN MapSet(_listsData, action.dest, list.record)
                            ELSE _listsData
           /\ uuidCount' = IF IsList(action) THEN uuidCount + list.drawn ELSE uuidCount
           /\ widgets' = IF IsSwitch(action) \/ IsDropdown(action) \/ IsTyped(action)
                            \/ IsSelector(action)
                         THEN MapSet(widgets, name, InitialWidget(action))
                         ELSE widgets
           /\ pending' = IF IsSelector(action)
                         THEN SubparserActions(action) \o Tail(pending)
                         ELSE Tail(pending)
    /\ UNCHANGED <<parser, groups, groupMap, phase, touched, fault>>

\* Interface.on_mount: compose() is exhausted, the handlers are live
on_mount ==
    /\ phase = "composing"
    /\ pending = <<>>
    /\ phase' = "mounted"
    /\ UNCHANGED <<parser, groups, groupMap, _commands, _listsData, pending, widgets,
                   touched, uuidCount, fault>>

----------------------------------------------------------------------------
(* Interface: handlers.  A widget posts an event only while it is on screen. *)

Live == phase = "mounted" /\ fault = "none"

Schema == <<parser, groups, groupMap, pending, phase>>

\* Interface.inputSwitchChanged: the switch of `name` was flipped
inputSwitchChanged(name) ==
    /\ Live
    /\ name \in DOMAIN widgets /\ IsSwitch(Action(name)) /\ Visible(name, widgets)
    /\ LET value == PyBool(~widgets[name].b)
       IN  /\ widgets' = [widgets EXCEPT ![name] = value]
           /\ _commands' = MapSet(_commands, Action(name).dest, value)
    /\ touched' = touched \cup {name}
    /\ UNCHANGED <<Schema, _listsData, uuidCount, fault>>

\* Interface.inputDropdownChanged: another option, or the blank one, was picked
inputDropdownChanged(name, value) ==
    /\ Live
    /\ name \in DOMAIN widgets /\ IsDropdown(Action(name)) /\ Visible(name, widgets)
    /\ value \in SeqSet(Action(name).choices.l) \cup {Blank}
    /\ value # widgets[name]
    /\ widgets' = [widgets EXCEPT ![name] = value]
    /\ _commands' = MapSet(_commands, Action(name).dest, value)
    /\ touched' = touched \cup {name}
    /\ UNCHANGED <<Schema, _listsData, uuidCount, fault>>

\* Interface.inputTypedChanged: the text of the Input of `name` became `raw`
inputTypedChanged(name, raw) ==
    /\ Live
    /\ name \in DOMAIN widgets /\ IsTyped(Action(name)) /\ Visible(name, widgets)
    /\ raw \in RawTexts
    /\ PyStr(raw) # widgets[name]
    /\ LET val == _typedStringToValue(raw, InputType(Action(name)))
       IN  _commands' = MapSet(_commands, Action(name).dest, val)
    /\ widgets' = [widgets EXCEPT ![name] = PyStr(raw)]
    /\ touched' = touched \cup {name}
    /\ UNCHANGED <<Schema, _listsData, uuidCount, fault>>

\* the list widgets on screen: (list id, index of the item)
ListIds == {d \in DOMAIN _listsData : Visible(_listsData[d].action, widgets)}

\* Interface.inputTypedInListChanged: the text of item i of list d became `raw`
inputTypedInListChanged(d, i, raw) ==
    /\ Live
    /\ d \in ListIds /\ i \in 1..Len(_listsData[d].items)
    /\ raw \in RawTexts
    /\ raw # _listsData[d].items[i].val.value
    /\ LET input == _listsData[d].items[i].val
           parts == Split(input.name, "_")
           val == _typedStringToValue(raw, InputType(Action(_listsData[d].action)))
       IN  IF Len(parts) # 2
           THEN fault' = "ValueError" /\ _commands' = _commands
           ELSE IF parts[1] \notin DOMAIN _commands
           THEN fault' = "KeyError" /\ _commands' = _commands
           ELSE IF _commands[parts[1]].t # "dict"
           THEN fault' = "TypeError" /\ _commands' = _commands
           ELSE /\ fault' = fault
                /\ _commands' = [_commands EXCEPT ![parts[1]] =
                                    PyDict(DictSet(@.items, parts[2], val))]
    /\ _listsData' = [_listsData EXCEPT ![d].items[i].val.value = raw]
    /\ touched' = touched \cup {_listsData[d].action}
    /\ UNCHANGED <<Schema, widgets, uuidCount>>

\* listAddButtonPressed that keeps the list of the action's default and adds
\* the new item to it in place
listAddButtonPressedInPlace(d) ==
    /\ Live
    /\ d \in ListIds
    /\ uuidCount < MaxUuid
    /\ LET action == Action(_listsData[d].action)
           buttonId == uuid4(uuidCount + 1)
           built == _buildListInputItem(_commands, buttonId, action, None)
       IN  /\ _commands' = built.cmds
           /\ _listsData' = [_listsData EXCEPT ![d].items = DictSet(@, buttonId, built.item)]
    /\ parser' = [parser EXCEPT !.defaults[_listsData[d].action] =
                     IF @.t = "list" THEN PyList(Append(@.l, None)) ELSE @]
    /\ uuidCount' = uuidCount + 1
    /\ touched' = touched \cup {_listsData[d].action}
    /\ UNCHANGED <<groups, groupMap, pending, phase, widgets, fault>>

\* Interface.listAddButtonPressed: "Add +" of list d
listAddButtonPressed(d) ==
    /\ Live
    /\ d \in ListIds
    /\ uuidCount < MaxUuid
    /\ LET action == Action(_listsData[d].action)
           buttonId == uuid4(uuidCount + 1)
           built == _buildListInputItem(_commands, buttonId, action, None)
       IN  /\ _commands' = built.cmds
           /\ _listsData' = [_listsData EXCEPT ![d].items = DictSet(@, buttonId, built.item)]
    /\ uuidCount' = uuidCount + 1
    /\ touched' = touched \cup {_listsData[d].action}
    /\ UNCHANGED <<Schema, widgets, fault>>

\* Interface.listRemoveButtonPressed: "X" of item i of list d
listRemoveButtonPressed(d, i) ==
    /\ Live
    /\ d \in ListIds /\ i \in 1..Len(_listsData[d].items)
    /\ LET parts == Split(_listsData[d].items[i].val.name, "_")
           popped == [_commands EXCEPT ![parts[1]] = PyDict(DictDel(@.items, parts[2]))]
       IN  IF Len(parts) # 2
           THEN fault' = "ValueError" /\ UNCHANGED <<_commands, _listsData>>
           ELSE IF parts[1] \notin DOMAIN _commands
           THEN fault' = "KeyError" /\ UNCHANGED <<_commands, _listsData>>
           ELSE IF _commands[parts[1]].t = "none"
           THEN fault' = "AttributeError" /\ UNCHANGED <<_commands, _listsData>>
           ELSE IF _commands[parts[1]].t # "dict"
           THEN fault' = "TypeError" /\ UNCHANGED <<_commands, _listsData>>
           ELSE IF ~DictHas(_commands[parts[1]].items, parts[2])
           THEN fault' = "KeyError" /\ UNCHANGED <<_commands, _listsData>>
           ELSE IF parts[1] \notin DOMAIN _listsData
                   \/ ~DictHas(_listsData[parts[1]].items, parts[2])
           THEN fault' = "KeyError" /\ _commands' = popped /\ _listsData' = _listsData
           ELSE /\ fault' = fault
                /\ _commands' = popped
                /\ _listsData' = [_listsData EXCEPT ![parts[1]].items = DictDel(@, parts[2])]
    /\ touched' = touched \cup {_listsData[d].action}
    /\ UNCHANGED <<Schema, widgets, uuidCount>>

\* the ids of list items that were removed: drawn, and in no list any more
RemovedIds ==
    {uuid4(k) : k \in (Len(parser._mutually_exclusive_groups) + 1)..uuidCount}
        \ UNION {DictKeys(_listsData[e].items) : e \in DOMAIN _listsData}

\* Interface.listRemoveButtonPressed for a second press of "X" of an item of
\* list d that the first press removed
listRemoveButtonPressedAgain(d, id) ==
    /\ Live
    /\ d \in ListIds /\ id \in RemovedIds
    /\ LET parts == Split(d \o <<"_">> \o id, "_")
       IN  IF Len(parts) # 2
           THEN fault' = "ValueError" /\ UNCHANGED <<_commands, _listsData>>
           ELSE IF parts[1] \notin DOMAIN _commands
           THEN fault' = "KeyError" /\ UNCHANGED <<_commands, _listsData>>
           ELSE IF _commands[parts[1]].t = "none"
           THEN fault' = "AttributeError" /\ UNCHANGED <<_commands, _listsData>>
           ELSE IF _commands[parts[1]].t # "dict"
           THEN fault' = "TypeError" /\ UNCHANGED <<_commands, _listsData>>
           ELSE IF ~DictHas(_commands[parts[1]].items, parts[2])
           THEN fault' = "KeyError" /\ UNCHANGED <<_commands, _listsData>>
           ELSE /\ fault' = "KeyError"
                /\ _commands' = [_commands EXCEPT ![parts[1]] = PyDict(DictDel(@.items, parts[2]))]
                /\ _listsData' = _listsData
    /\ UNCHANGED <<Schema, widgets, touched, uuidCount>>

\* the texts an input holds whose change is handled after its item was removed
LateTexts == {<<"7">>}

\* Interface.inputTypedInListChanged for an Input.Changed of an item of list d
\* that is handled after "X" removed the item: the handler reads the event's
\* input, not the widget record
inputTypedInListChangedLate(d, id, raw) ==
    /\ Live
    /\ d \in ListIds /\ id \in RemovedIds
    /\ raw \in LateTexts
    /\ LET parts == Split(d \o <<"_">> \o id, "_")
           val == _typedStringToValue(raw, InputType(Action(_listsData[d].action)))
       IN  IF Len(parts) # 2
           THEN fault' = "ValueError" /\ _commands' = _commands
           ELSE IF parts[1] \notin DOMAIN _commands
           THEN fault' = "KeyError" /\ _commands' = _commands
           ELSE IF _commands[parts[1]].t # "dict"
           THEN fault' = "TypeError" /\ _commands' = _commands
           ELSE /\ fault' = fault
                /\ _commands' = [_commands EXCEPT ![parts[1]] =
                                    PyDict(DictSet(@.items, parts[2], val))]
    /\ touched' = touched \cup {_listsData[d].action}
    /\ UNCHANGED <<Schema, widgets, _listsData, uuidCount>>

\* the id textual gives the tab of pane `paneId`
ContentTabId(paneId) == <<"-", "-", "content", "-", "tab", "-">> \o paneId

\* tabActivated that also resets the entries of the sub-parsers left behind
tabActivatedReset(name, j) ==
    /\ Live
    /\ name \in DOMAIN widgets /\ IsSelector(Action(name)) /\ Visible(name, widgets)
    /\ j \in 1..Len(Action(name).choices.items)
    /\ LET key == Action(name).choices.items[j].key
           left == {Action(n).dest : n \in
                      {n \in ActionNames : \E i \in 1..Len(Action(name).choices.items) :
                          i # j /\ Container(n) = Action(name).choices.items[i].parser}}
       IN  /\ _commands' = [d \in DOMAIN _commands \cup {Action(name).dest} |->
                              IF d = Action(name).dest THEN PyStr(key)
                              ELSE IF d \in left THEN None ELSE _commands[d]]
           /\ widgets' = [widgets EXCEPT ![name] = PyStr(key)]
    /\ fault' = fault
    /\ touched' = touched \cup {name}
    /\ UNCHANGED <<Schema, _listsData, uuidCount>>

\* Interface.tabActivated: tab j of the TabbedContent of selector `name` was activated
tabActivated(name, j) ==
    /\ Live
    /\ name \in DOMAIN widgets /\ IsSelector(Action(name)) /\ Visible(name, widgets)
    /\ j \in 1..Len(Action(name).choices.items)
    /\ LET key == Action(name).choices.items[j].key
           tabId == ContentTabId(Action(name).dest \o <<"_">> \o key)
           parts == Split(RSplitLast(tabId, "-"), "_")
       IN  /\ IF Len(parts) # 2
              THEN fault' = "ValueError" /\ _commands' = _commands
              ELSE fault' = fault /\ _commands' = MapSet(_commands, parts[1], PyStr(parts[2]))
           /\ widgets' = [widgets EXCEPT ![name] = PyStr(key)]
    /\ touched' = touched \cup {name}
    /\ UNCHANGED <<Schema, _listsData, uuidCount>>

ListDests == {Action(n).dest : n \in {"tags", "nums", "default_list"}}

Next ==
    \/ compose
    \/ _buildActionInputs
    \/ on_mount
    \/ \E name \in ActionNames : inputSwitchChanged(name)
    \/ \E name \in ActionNames, value \in {PyStr(<<"fast">>), PyStr(<<"slow">>), Blank} :
          inputDropdownChanged(name, value)
    \/ \E name \in ActionNames, raw \in RawTexts : inputTypedChanged(name, raw)
    \/ \E d \in ListDests, i \in 1..MaxUuid, raw \in RawTexts : inputTypedInListChanged(d, i, raw)
    \/ \E d \in ListDests : listAddButtonPressed(d)
    \/ \E d \in ListDests, i \in 1..MaxUuid : listRemoveButtonPressed(d, i)
    \/ \E d \in ListDests, k \in 1..MaxUuid : listRemoveButtonPressedAgain(d, uuid4(k))
    \/ \E d \in ListDests, k \in 1..MaxUuid, raw \in LateTexts :
          inputTypedInListChangedLate(d, uuid4(k), raw)
    \/ \E name \in ActionNames, j \in 1..2 : tabActivated(name, j)

Spec == Init /\ [][Next]_vars

----------------------------------------------------------------------------
(* The Interface of src/src: it walks parser._actions itself, has no group
   resolver, and its getArgs works on _commands in place.  Its two handlers
   named inputTypedChanged share one class attribute, so only the later one,
   the handler of list items, is registered. *)

\* the generator expression of _buildParserInputs
ParserInputActions(actions) ==
    LET Keep(a) ==
            ~(\/ GuiFlag \in SeqSet(Action(a).option_strings.l)
              \/ Action(a).cls = "_HelpAction")
    IN  SelectSeq(actions, Keep)

\* the actions _buildParserInputs gives a list input
IsListSrc(action) ==
    /\ action.cls = "_StoreAction" /\ action.choices = None
    /\ action.nargs = PyStr(<<"+">>)

\* _buildSubparserGroup of src/src: the actions of every sub-parser, tab by tab
SubparserActionsSrc(action) ==
    Concat([j \in 1..Len(action.choices.items) |->
        ParserInputActions(Parser(action.choices.items[j].parser)._actions)])

InitSrc ==
    /\ parser \in {Parser(n) : n \in RootParsers}
    /\ groups = Unmapped
    /\ groupMap = <<>>
    /\ _commands = EmptyMap
    /\ _listsData = EmptyMap
    /\ pending = <<>>
    /\ phase = "constructed"
    /\ widgets = EmptyMap
    /\ touched = {}
    /\ uuidCount = 0
    /\ fault = "none"

\* compose of src/src up to the first action
composeSrc ==
    /\ phase = "constructed"
    /\ phase' = "composing"
    /\ pending' = ParserInputActions(parser._actions)
    /\ UNCHANGED <<parser, groups, groupMap, _commands, _listsData, widgets, touched,
                   uuidCount, fault>>

\* one pass of the loop of _buildParserInputs
_buildParserInputs ==
    /\ phase = "composing"
    /\ pending # <<>>
    /\ LET name == Head(pending)
           action == Action(name)
           cmds == MapSet(_commands, action.dest, OrNone(action.default))
           list == _buildListInput(cmds, uuidCount, name)
       IN  /\ _commands' = IF IsListSrc(action) THEN list.cmds ELSE cmds
           /\ _listsData' = IF IsListSrc(action)
                            THEN MapSet(_listsData, action.dest, list.record)
                            ELSE _listsData
           /\ uuidCount' = IF IsListSrc(action) THEN uuidCount + list.drawn ELSE uuidCount
           /\ widgets' = IF IsListSrc(action) \/ action.cls = "_HelpAction" THEN widgets
                         ELSE IF IsSwitch(action) \/ IsDropdown(action) \/ IsSelector(action)
                         THEN MapSet(widgets, name, InitialWidget(action))
                         ELSE MapSet(widgets, name, PyStr(_createInput(OrNone(action.default))))
           /\ pending' = IF IsSelector(action)
                         THEN SubparserActionsSrc(action) \o Tail(pending)
                         ELSE Tail(pending)
    /\ UNCHANGED <<parser, groups, groupMap, phase, touched, fault>>

\* getArgs of src/src that flattens whatever a list destination holds
getArgsSrcOfAgain(cmds, lists) ==
    [d \in DOMAIN cmds |->
        IF d \in DOMAIN lists /\ cmds[d].t = "dict" THEN PyList(DictValues(cmds[d].items))
        ELSE IF d \in DOMAIN lists /\ cmds[d].t = "list" THEN PyList(<<cmds[d]>>)
        ELSE cmds[d]]

\* getArgs of src/src: what it leaves in _commands, which is what it returns
getArgsSrcOf(cmds, lists) ==
    [d \in DOMAIN cmds |->
        IF d \in DOMAIN lists /\ cmds[d].t = "dict" THEN PyList(DictValues(cmds[d].items))
        ELSE cmds[d]]

\* a call of getArgs of src/src
getArgsSrc ==
    /\ Live
    /\ _commands' = getArgsSrcOf(_commands, _listsData)
    /\ UNCHANGED <<Schema, _listsData, widgets, touched, uuidCount, fault>>

\* text the user leaves in the Input of a list item
RawTextsSrc == {<<>>, <<"7">>}

NextSrc ==
    \/ composeSrc
    \/ _buildParserInputs
    \/ on_mount
    \/ \E name \in ActionNames : inputSwitchChanged(name)
    \/ \E name \in ActionNames, value \in {PyStr(<<"fast">>), PyStr(<<"slow">>), Blank} :
          inputDropdownChanged(name, value)
    \/ \E d \in ListDests, i \in 1..MaxUuid, raw \in RawTextsSrc : inputTypedInListChanged(d, i, raw)
    \/ \E d \in ListDests : listAddButtonPressed(d)
    \/ \E d \in ListDests, i \in 1..MaxUuid : listRemoveButtonPressed(d, i)
    \/ \E name \in ActionNames, j \in 1..2 : tabActivated(name, j)
    \/ getArgsSrc

SpecSrc == InitSrc /\ [][NextSrc]_vars

----------------------------------------------------------------------------
(* Interface: the handlers on an event whose widget names a destination that
   _buildActionInputs never entered in _commands; touched takes the class of
   the widget. *)

\* the classes that route the events of a widget to the handlers
CLASS_SWITCH == "switchInput"
CLASS_DROPDOWN == "dropdownInput"
CLASS_TYPED_TEXT == "textInput"
CLASS_LIST_RM_BTN == "listRemoveButton"
CLASS_LIST_ADD_BTN == "listAddButton"
CLASS_LIST_TEXT == "listInput"
CLASS_SUBPARSER_TAB_BOX == "subparserContainer"

UnknownDests == {<<"ghost">>}

Unmaterialized(id) == Live /\ id \in UnknownDests /\ id \notin DOMAIN _commands

\* Interface.inputSwitchChanged for the switch with id `id`
inputSwitchChangedOn(id, value) ==
    /\ Unmaterialized(id)
    /\ _commands' = MapSet(_commands, id, PyBool(value))
    /\ touched' = touched \cup {CLASS_SWITCH}
    /\ UNCHANGED <<Schema, _listsData, widgets, uuidCount, fault>>

\* Interface.inputDropdownChanged for the Select with id `id`
inputDropdownChangedOn(id, value) ==
    /\ Unmaterialized(id)
    /\ _commands' = MapSet(_commands, id, value)
    /\ touched' = touched \cup {CLASS_DROPDOWN}
    /\ UNCHANGED <<Schema, _listsData, widgets, uuidCount, fault>>

\* Interface.inputTypedChanged for the Input with id `id` and type `inputType`
inputTypedChangedOn(id, raw, inputType) ==
    /\ Unmaterialized(id)
    /\ _commands' = MapSet(_commands, id, _typedStringToValue(raw, inputType))
    /\ touched' = touched \cup {CLASS_TYPED_TEXT}
    /\ UNCHANGED <<Schema, _listsData, widgets, uuidCount, fault>>

\* Interface.inputTypedInListChanged for the Input named `id`_`item`
inputTypedInListChangedOn(id, item, raw) ==
    /\ Unmaterialized(id)
    /\ LET parts == Split(id \o <<"_">> \o item, "_")
       IN  IF Len(parts) # 2
           THEN fault' = "ValueError" /\ _commands' = _commands
           ELSE IF parts[1] \notin DOMAIN _commands
           THEN fault' = "KeyError" /\ _commands' = _commands
           ELSE IF _commands[parts[1]].t # "dict"
           THEN fault' = "TypeError" /\ _commands' = _commands
           ELSE /\ fault' = fault
                /\ _commands' = [_commands EXCEPT ![parts[1]] =
                                    PyDict(DictSet(@.items, parts[2], PyStr(raw)))]
    /\ touched' = touched \cup {CLASS_LIST_TEXT}
    /\ UNCHANGED <<Schema, _listsData, widgets, uuidCount>>

\* Interface.listAddButtonPressed for the button named `id`
listAddButtonPressedOn(id) ==
    /\ Unmaterialized(id)
    /\ IF id \notin DOMAIN _listsData
       THEN fault' = "KeyError" /\ UNCHANGED <<_commands, _listsData, uuidCount>>
       ELSE /\ uuidCount < MaxUuid
            /\ LET buttonId == uuid4(uuidCount + 1)
                   action == Action(_listsData[id].action)
                   built == _buildListInputItem(_commands, buttonId, action, None)
               IN  /\ _commands' = built.cmds
                   /\ _listsData' = [_listsData EXCEPT ![id].items =
                                        DictSet(@, buttonId, built.item)]
            /\ uuidCount' = uuidCount + 1
            /\ fault' = fault
    /\ touched' = touched \cup {CLASS_LIST_ADD_BTN}
    /\ UNCHANGED <<Schema, widgets>>

\* Interface.listRemoveButtonPressed for the button named `id`_`item`
listRemoveButtonPressedOn(id, item) ==
    /\ Unmaterialized(id)
    /\ LET parts == Split(id \o <<"_">> \o item, "_")
       IN  IF Len(parts) # 2
           THEN fault' = "ValueError" /\ _commands' = _commands
           ELSE IF parts[1] \notin DOMAIN _commands
           THEN fault' = "KeyError" /\ _commands' = _commands
           ELSE IF _commands[parts[1]].t = "none"
           THEN fault' = "AttributeError" /\ _commands' = _commands
           ELSE IF _commands[parts[1]].t # "dict"
           THEN fault' = "TypeError" /\ _commands' = _commands
           ELSE IF ~DictHas(_commands[parts[1]].items, parts[2])
           THEN fault' = "KeyError" /\ _commands' = _commands
           ELSE /\ fault' = "KeyError"
                /\ _commands' = [_commands EXCEPT ![parts[1]] =
                                    PyDict(DictDel(@.items, parts[2]))]
    /\ touched' = touched \cup {CLASS_LIST_RM_BTN}
    /\ UNCHANGED <<Schema, _listsData, widgets, uuidCount>>

\* Interface.tabActivated for the tab of the pane with id `id`_`key`
tabActivatedOn(id, key) ==
    /\ Unmaterialized(id)
    /\ LET tabId == ContentTabId(id \o <<"_">> \o key)
           parts == Split(RSplitLast(tabId, "-"), "_")
       IN  IF Len(parts) # 2
           THEN fault' = "ValueError" /\ _commands' = _commands
           ELSE fault' = fault /\ _commands' = MapSet(_commands, parts[1], PyStr(parts[2]))
    /\ touched' = touched \cup {CLASS_SUBPARSER_TAB_BOX}
    /\ UNCHANGED <<Schema, _listsData, widgets, uuidCount>>

InputTypes == {"text", "integer", "number"}

NextUnknown ==
    \/ compose
    \/ _buildActionInputs
    \/ on_mount
    \/ \E id \in UnknownDests, value \in BOOLEAN : inputSwitchChangedOn(id, value)
    \/ \E id \in UnknownDests, value \in {PyStr(<<"fast">>), PyStr(<<"slow">>), Blank} :
          inputDropdownChangedOn(id, value)
    \/ \E id \in UnknownDests, raw \in RawTexts, inputType \in InputTypes :
          inputTypedChangedOn(id, raw, inputType)
    \/ \E id \in UnknownDests, k \in 1..MaxUuid, raw \in RawTexts :
          inputTypedInListChangedOn(id, uuid4(k), raw)
    \/ \E id \in UnknownDests : listAddButtonPressedOn(id)
    \/ \E id \in UnknownDests, k \in 1..MaxUuid : listRemoveButtonPressedOn(id, uuid4(k))
    \/ \E id \in UnknownDests, key \in {<<"foo">>, <<"bar">>} : tabActivatedOn(id, key)

SpecUnknown == Init /\ [][NextUnknown]_vars

----------------------------------------------------------------------------
(* Wrapper.py.  While the Wrapper is all there is (phase "wrapped"), widgets
   holds its guiFlag and pending the words of the command line; parser is
   the parser after _addGuiArgument.  On the interactive path the variables
   become those of the Interface; on the other path _commands takes the
   result of parse_args and phase becomes "cli". *)

\* str.lstrip(ch)
RECURSIVE LStrip(_, _)
LStrip(s, ch) == IF s # <<>> /\ Head(s) = ch THEN LStrip(Tail(s), ch) ELSE s

\* the parsers a Wrapper was constructed on, and the action of the gui flag
WrappedParsers == {"wrapped", "wrapped.g", "wrapped.my"}
GuiActionOf(p) ==
    CHOOSE n \in SeqSet(p._actions) :
        Action(n).cls = "_StoreTrueAction" /\ n \in {"gui", "gui.g", "gui.my"}

\* the option of the action is among the words
OnCommandLine(action, argv) ==
    \E i \in 1..Len(argv) : PyStr(argv[i]) \in SeqSet(action.option_strings.l)

\* the word after the option of the action
WordAfter(action, argv) ==
    LET i == CHOOSE j \in 1..Len(argv) : PyStr(argv[j]) \in SeqSet(action.option_strings.l)
    IN  PyStr(argv[i + 1])

\* vars(parser.parse_args()) for words the parser accepts
ParseArgsCli(p, argv) ==
    LET own == {n \in SeqSet(p._actions) : Action(n).cls # "_HelpAction"}
        Value(n) ==
            IF Action(n).cls = "_StoreTrueAction" THEN PyBool(OnCommandLine(Action(n), argv))
            ELSE IF OnCommandLine(Action(n), argv) THEN WordAfter(Action(n), argv)
            ELSE Action(n).default
    IN  [d \in {Action(n).dest : n \in own} |->
            Value(CHOOSE n \in own : Action(n).dest = d)]

\* the command lines: with and without the gui flag, with and without --name
Argvs(flag) ==
    LET names == {<<<<"-", "-", "name">>, word>> : word \in {<<"x">>, <<"7">>}}
    IN  {<<>>, <<flag>>} \cup names
           \cup {<<flag>> \o name : name \in names} \cup {name \o <<flag>> : name \in names}

\* Wrapper.__init__
InitWrapper ==
    /\ \E q \in WrappedParsers :
          LET flag == Action(GuiActionOf(Parser(q))).option_strings.l[1]
          IN  /\ parser = Parser(q)
              /\ widgets = ("guiFlag" :> flag)
              /\ pending \in Argvs(flag.s)
    /\ groups = Unmapped
    /\ groupMap = <<>>
    /\ _commands = EmptyMap
    /\ _listsData = EmptyMap
    /\ phase = "wrapped"
    /\ touched = {}
    /\ uuidCount = 0
    /\ fault = "none"

\* Wrapper.parseArgs, up to gui.run() on the interactive path
parseArgs ==
    /\ phase = "wrapped"
    /\ LET guiFlag == widgets["guiFlag"]
           gui == Action(GuiActionOf(parser))
           \* guiArgParser.parse_known_args()[0]
           args == (gui.dest :> PyBool(OnCommandLine(gui, pending)))
           attr == LStrip(guiFlag.s, "-")
       IN  IF attr \in DOMAIN args /\ Truthy(args[attr])
           THEN \* parseArgsWithGui: Interface(self._parser, self.guiFlag, ...)
                /\ phase' = "constructed"
                /\ groups' = mapParserGroups(parser)
                /\ groupMap' = ParserMapGroupMap(parser)
                /\ _commands' = EmptyMap
                /\ widgets' = EmptyMap
                /\ pending' = <<>>
                /\ uuidCount' = Len(parser._mutually_exclusive_groups)
           ELSE /\ phase' = "cli"
                /\ _commands' = ParseArgsCli(parser, pending)
                /\ UNCHANGED <<groups, groupMap, widgets, pending, uuidCount>>
    /\ UNCHANGED <<parser, _listsData, touched, fault>>

\* gui.run() ended; parseArgsWithGui returns gui.getArgs()
parseArgsWithGuiReturns ==
    /\ phase = "mounted"
    /\ phase' = "returned"
    /\ UNCHANGED <<parser, groups, groupMap, _commands, _listsData, pending, widgets,
                   touched, uuidCount, fault>>

NextWrapper ==
    \/ parseArgs
    \/ compose
    \/ _buildActionInputs
    \/ on_mount
    \/ \E name \in ActionNames : inputSwitchChanged(name)
    \/ \E name \in ActionNames, raw \in RawTexts : inputTypedChanged(name, raw)
    \/ parseArgsWithGuiReturns

SpecWrapper == InitWrapper /\ [][NextWrapper]_vars

----------------------------------------------------------------------------
(* widgets/InputList.py.  The widget keeps its items in _inputs and _values,
   which have the shape of the items of _listsData and of the entry of
   _commands and are held there; widgets holds showAddRemove and, once
   composed, the disabled flag of the "Add +" button.  The buttons carry
   the classes of Interface's list handlers, which serve them. *)

InputListActions == {"fixed2", "fixed3", "many"}

\* the defaults an InputList is constructed with
InputListDefaults ==
    {None, PyList(<<>>), PyList(<<PyInt(1)>>), PyList(<<PyInt(1), PyInt(2)>>),
     PyList(<<PyInt(1), PyInt(2), PyInt(3)>>)}

\* len(range(a, b))
RangeLen(a, b) == IF b > a THEN b - a ELSE 0

\* second loop of InputList._prepareItems: count more items without a value
RECURSIVE FillItems(_, _, _, _)
FillItems(count, n, action, st) ==
    IF count = 0 THEN st
    ELSE LET itemId == uuid4(n + 1)
             built == _buildListInputItem(st.cmds, itemId, action, None)
         IN  FillItems(count - 1, n + 1, action,
                [st EXCEPT !.cmds = built.cmds, !.items = DictSet(@, itemId, built.item)])

\* InputList._prepareItems: _values, _inputs and the number of ids drawn
_prepareItems(name, defaults) ==
    LET action == Action(name)
        empty == [cmds |-> (action.dest :> PyDict(<<>>)), items |-> <<>>, cmdUpdate |-> <<>>]
        seeded == IF defaults.t = "list"
                  THEN SeedListItems(defaults.l, 0, action, empty)
                  ELSE empty
        itemCount == Len(seeded.items)
        more == IF action.nargs.t = "int" /\ itemCount < action.nargs.i
                THEN RangeLen(itemCount, action.nargs.i - itemCount)
                ELSE 0
        filled == FillItems(more, itemCount, action, seeded)
    IN  [cmds |-> filled.cmds, items |-> filled.items, drawn |-> itemCount + more]

\* InputList.__init__
InitInputList ==
    /\ \E name \in InputListActions, defaults \in InputListDefaults, showAddRemove \in BOOLEAN :
          LET prepared == _prepareItems(name, defaults)
          IN  /\ parser = Parser(name)
              /\ _commands = prepared.cmds
              /\ _listsData = (Action(name).dest :> [action |-> name, items |-> prepared.items])
              /\ uuidCount = prepared.drawn
              /\ widgets = ("showAddRemove" :> PyBool(showAddRemove)) @@ ("defaults" :> defaults)
    /\ groups = Unmapped
    /\ groupMap = <<>>
    /\ pending = <<>>
    /\ phase = "constructed"
    /\ touched = {}
    /\ fault = "none"

\* InputList.compose: the "Add +" button and its disabled flag
composeInputList ==
    /\ phase = "constructed"
    /\ phase' = "mounted"
    /\ LET action == Action(parser._actions[1])
           disabled == IF action.nargs.t = "int"
                       THEN Len(_listsData[action.dest].items) >= action.nargs.i
                       ELSE FALSE
       IN  widgets' = IF widgets["showAddRemove"].b
                      THEN MapSet(widgets, "addButton", PyBool(disabled))
                      ELSE widgets
    /\ UNCHANGED <<parser, groups, groupMap, _commands, _listsData, pending, touched,
                   uuidCount, fault>>

\* "Add +" of the InputList was pressed: a disabled button posts nothing
inputListAddPressed(d) ==
    /\ "addButton" \in DOMAIN widgets
    /\ ~widgets["addButton"].b
    /\ listAddButtonPressed(d)

\* "X" of item i of the InputList was pressed
inputListRemovePressed(d, i) ==
    /\ widgets["showAddRemove"].b
    /\ listRemoveButtonPressed(d, i)

InputListDests == {Action(n).dest : n \in InputListActions}

NextInputList ==
    \/ composeInputList
    \/ \E d \in InputListDests : inputListAddPressed(d)
    \/ \E d \in InputListDests, i \in 1..MaxUuid : inputListRemovePressed(d, i)

SpecInputList == InitInputList /\ [][NextInputList]_vars

----------------------------------------------------------------------------
(* ParserGroup.py and the section labels of Interface._buildParserInterface.
   Here groupMap is the list of ParserGroup objects the Interface walks, and
   widgets is the list of the header labels yielded so far. *)

MaxGroups == 3      \* groups of one interface

\* str.isspace for one character
IsSpace(c) == c \in {" ", "\t", "\n"}

\* str.strip()
RECURSIVE Strip(_)
Strip(s) ==
    IF s = <<>> THEN s
    ELSE IF IsSpace(Head(s)) THEN Strip(Tail(s))
    ELSE IF IsSpace(s[Len(s)]) THEN Strip(SubSeq(s, 1, Len(s) - 1))
    ELSE s

\* the titles a ParserGroup is built with
GroupTitles ==
    {None, PyStr(<<>>), PyStr(<<" ">>), PyStr(<<" ", "\t">>), PyStr(<<"G">>),
     PyStr(<<" ", "G", "\n">>), PyStr(<<"a", " ", "b">>)}

\* ParserGroup.__init__ that takes the title as it is given
ParserGroupKeepTitle(isExclusive, title, n) ==
    IF Truthy(title)
    THEN [title |-> title, isUuidTitle |-> FALSE, isExclusive |-> isExclusive,
          reqActions |-> <<>>, optActions |-> <<>>]
    ELSE [title |-> PyStr(uuid4(n + 1)), isUuidTitle |-> TRUE, isExclusive |-> isExclusive,
          reqActions |-> <<>>, optActions |-> <<>>]

\* ParserGroup.__init__: the group, n uuids having been drawn before
ParserGroup(isExclusive, title, n) ==
    IF Truthy(title) /\ Len(Strip(title.s)) > 0
    THEN [title |-> PyStr(Strip(title.s)), isUuidTitle |-> FALSE, isExclusive |-> isExclusive,
          reqActions |-> <<>>, optActions |-> <<>>]
    ELSE [title |-> PyStr(uuid4(n + 1)), isUuidTitle |-> TRUE, isExclusive |-> isExclusive,
          reqActions |-> <<>>, optActions |-> <<>>]

InitGroups ==
    /\ parser = Parser("flat")
    /\ groups = Unmapped
    /\ groupMap = <<>>
    /\ _commands = EmptyMap
    /\ _listsData = EmptyMap
    /\ pending = <<>>
    /\ phase = "grouping"
    /\ widgets = <<>>
    /\ touched = {}
    /\ uuidCount = 0
    /\ fault = "none"

\* one more ParserGroup is constructed and joins the list
ParserGroupInit(isExclusive, title) ==
    /\ phase = "grouping"
    /\ Len(groupMap) < MaxGroups
    /\ LET group == ParserGroup(isExclusive, title, uuidCount)
       IN  /\ groupMap' = Append(groupMap, group)
           /\ uuidCount' = IF group.isUuidTitle THEN uuidCount + 1 ELSE uuidCount
    /\ UNCHANGED <<parser, groups, _commands, _listsData, pending, phase, widgets, touched,
                   fault>>

\* Interface.compose reaches _buildParserInterface
composeGroups ==
    /\ phase = "grouping"
    /\ phase' = "composing"
    /\ UNCHANGED <<parser, groups, groupMap, _commands, _listsData, pending, widgets,
                   touched, uuidCount, fault>>

\* one pass of the loop of Interface._buildParserInterface: the header label
_buildParserInterface ==
    /\ phase = "composing"
    /\ Len(widgets) < Len(groupMap)
    /\ LET groupIndex == Len(widgets)
           group == groupMap[groupIndex + 1]
       IN  widgets' = Append(widgets,
                         IF group.isUuidTitle
                         THEN PyStr(<<"Section", " ">> \o IntDigits(groupIndex + 1))
                         ELSE group.title)
    /\ UNCHANGED <<parser, groups, groupMap, _commands, _listsData, pending, phase,
                   touched, uuidCount, fault>>

NextGroups ==
    \/ \E isExclusive \in BOOLEAN, title \in GroupTitles : ParserGroupInit(isExclusive, title)
    \/ composeGroups
    \/ _buildParserInterface

SpecGroups == InitGroups /\ [][NextGroups]_vars

----------------------------------------------------------------------------
(* widgets/FileSelect.py and modals/FileSelectModal.py.  Here widgets holds
   the attributes of the one object there is: of a FileSelect its link label
   (linkLabel, tooltip, url), of a FileSelectModal __curPath, the root of its
   DirectoryTree and the text of its path Input.  pending is the list of the
   messages posted and the notifications shown.  A path is the list of its
   components, a text is a list of tokens in which "/" is a token of its
   own. *)

MaxMessages == 2    \* messages and notifications of one session

PyPath(parts) == [t |-> "path", parts |-> parts]

ID_UP_DIR_BTN == "fsModalUpButton"
ID_PATH_INPUT == "fsModalPathInput"
ID_GO_PATH_BTN == "fsModalGoButton"
ID_CANCEL_BTN == "fsModalCancelButton"
ID_SELECT_BTN == "fsModalSelectButton"

\* the file system: directories and files
FsDirs == {<<>>, <<"home">>, <<"home", "docs">>}
FsFiles == {<<"home", "a.txt">>, <<"home", "docs", "b.txt">>}
\* Path.exists, Path.is_dir
Exists(parts) == parts \in FsDirs \cup FsFiles
IsDir(parts) == parts \in FsDirs
\* Path.home() and the working directory
Home == <<"home">>
Cwd == <<"home">>

\* str(path)
StrPath(parts) ==
    IF parts = <<>> THEN <<"/">>
    ELSE Concat([i \in 1..Len(parts) |-> <<"/", parts[i]>>])

\* the ".." components of a path folded, as resolve() does where no component
\* is a link
RECURSIVE Normal(_, _)
Normal(parts, done) ==
    IF parts = <<>> THEN done
    ELSE IF Head(parts) = ".."
    THEN Normal(Tail(parts), IF done = <<>> THEN <<>> ELSE SubSeq(done, 1, Len(done) - 1))
    ELSE Normal(Tail(parts), Append(done, Head(parts)))

\* Path(path).resolve() of a text or of a path
Resolve(path) ==
    IF path.t = "path" THEN Normal(path.parts, <<>>)
    ELSE LET names == FilterSeq(path.s, SeqSet(path.s) \ {"/", "."})
         IN  IF path.s # <<>> /\ Head(path.s) = "/"
             THEN Normal(names, <<>>)
             ELSE Normal(Cwd \o names, <<>>)

\* Path.parent
Parent(parts) == IF parts = <<>> THEN <<>> ELSE SubSeq(parts, 1, Len(parts) - 1)

\* the texts a path is given as
PathTexts ==
    {<<"/">>, <<"/", "home", "/", "a.txt">>, <<"docs">>,
     <<"/", "home", "/", "docs", "/", "..">>, <<"docs", "/", "b.txt">>,
     <<"/", "home", "/", "nope">>, <<"nope">>}

\* FileSelect.compose: the link label
FileSelectWidget ==
    ("linkLabel" :> PyStr(<<"No file selected.">>)) @@ ("tooltip" :> None)
        @@ ("url" :> PyStr(<<>>))

\* FileSelectModal.__init__ and compose
FileSelectModal(startPath) ==
    LET given == IF startPath = None THEN Normal(Home, <<>>) ELSE Resolve(startPath)
        start == IF IsDir(given) THEN given ELSE Normal(Parent(given), <<>>)
    IN  ("curPath" :> PyPath(start)) @@ ("dirTree" :> PyPath(start))
            @@ ("pathInput" :> PyStr(StrPath(Normal(start, <<>>))))

\* the closure fileSelectDone of FileSelect.presentFileSelectModal: the
\* attributes of the widget and the messages after the modal returned `path`
fileSelectDone(w, posted, path) ==
    [posted |-> Append(posted, [msg |-> "FileSelectComplete", path |-> path]),
     w |-> IF path.t = "path"
           THEN [w EXCEPT !["linkLabel"] = [t |-> "limitString", s |-> StrPath(path.parts)],
                          !["tooltip"] = PyStr(StrPath(path.parts)),
                          !["url"] = path]
           ELSE w]

\* goToPathOrFail that takes the path before it looks whether it exists
goToPathOrFailEager(w, path) ==
    LET p == Resolve(path)
        moved == [w EXCEPT !["curPath"] = PyPath(p), !["pathInput"] = PyStr(StrPath(p))]
    IN  IF ~Exists(p) THEN [w |-> moved, raised |-> "FileNotFoundError"]
        ELSE [w |-> IF IsDir(p) THEN [moved EXCEPT !["dirTree"] = PyStr(StrPath(p))] ELSE moved,
              raised |-> "none"]

\* FileSelectModal.goToPathOrFail: the attributes after the call, and what it raised
goToPathOrFailOf(w, path) ==
    LET p == Resolve(path)
        moved == [w EXCEPT !["curPath"] = PyPath(p), !["pathInput"] = PyStr(StrPath(p))]
    IN  IF ~Exists(p) THEN [w |-> w, raised |-> "FileNotFoundError"]
        ELSE [w |-> IF IsDir(p) THEN [moved EXCEPT !["dirTree"] = PyStr(StrPath(p))] ELSE moved,
              raised |-> "none"]

\* a FileSelect is composed, or an App holds a FileSelectModal it constructed
\* on a start path and composed
InitFileSelect ==
    /\ parser = Parser("flat")
    /\ groups = Unmapped
    /\ groupMap = <<>>
    /\ _commands = EmptyMap
    /\ _listsData = EmptyMap
    /\ pending = <<>>
    /\ touched = {}
    /\ uuidCount = 0
    /\ fault = "none"
    /\ \/ phase = "widget" /\ widgets = FileSelectWidget
       \/ /\ phase = "modal"
          /\ \E startPath \in {None} \cup {PyStr(s) : s \in PathTexts} :
                widgets = FileSelectModal(startPath)

\* FileSelect.fileSelectOpenButtonPressed: "Select" of the widget
fileSelectOpenButtonPressed ==
    /\ phase = "widget" /\ fault = "none"
    /\ Len(pending) < MaxMessages
    /\ pending' = Append(pending, [msg |-> "ModalRequested", path |-> None])
    /\ UNCHANGED <<parser, groups, groupMap, _commands, _listsData, phase, widgets, touched,
                   uuidCount, fault>>

\* FileSelect.presentFileSelectModal, called as showModal of a ModalRequested
\* message: FileSelectModal.__init__ takes (app, startPath) and is given
\* startPath only, the call raises before a screen is pushed
presentFileSelectModal(startPath) ==
    /\ phase = "widget" /\ fault = "none"
    /\ \E i \in 1..Len(pending) : pending[i].msg = "ModalRequested"
    /\ fault' = "TypeError"
    /\ touched' = {IF startPath = None THEN <<"None">> ELSE startPath.s}
    /\ UNCHANGED <<parser, groups, groupMap, _commands, _listsData, pending, phase, widgets,
                   uuidCount>>

\* a call of goToPathOrFail(path) made by `caller`, the one recorded in touched
Navigate(caller, path, pass) ==
    /\ phase = "modal" /\ fault = "none"
    /\ LET went == goToPathOrFailOf(widgets, path)
       IN  widgets' = went.w /\ fault' = IF pass THEN fault ELSE went.raised
    /\ touched' = {caller}
    /\ UNCHANGED <<parser, groups, groupMap, _commands, _listsData, pending, phase, uuidCount>>

\* FileSelectModal.goToPathOrFail(path)
goToPathOrFail(path) ==
    /\ path.t \in {"str", "path"}
    /\ Navigate("goToPathOrFail", path, FALSE)

\* FileSelectModal.goToPath(path): FileNotFoundError is passed over
goToPath(path) ==
    /\ path.t \in {"str", "path"}
    /\ Navigate("goToPath", path, TRUE)

\* FileSelectModal.dirUpButtonPressed: "Back"
dirUpButtonPressed ==
    /\ "curPath" \in DOMAIN widgets
    /\ Navigate(ID_UP_DIR_BTN, PyPath(Parent(widgets["curPath"].parts)), TRUE)

\* the user edits the text of the path input
pathInputChanged(text) ==
    /\ phase = "modal" /\ fault = "none"
    /\ widgets' = [widgets EXCEPT !["pathInput"] = PyStr(text)]
    /\ touched' = {ID_PATH_INPUT}
    /\ UNCHANGED <<parser, groups, groupMap, _commands, _listsData, pending, phase,
                   uuidCount, fault>>

\* FileSelectModal.pathGoButtonPressed: "Go"
pathGoButtonPressed ==
    /\ phase = "modal" /\ fault = "none"
    /\ Len(pending) < MaxMessages
    /\ LET went == goToPathOrFailOf(widgets, widgets["pathInput"])
       IN  /\ widgets' = went.w
           /\ pending' = IF went.raised = "FileNotFoundError"
                         THEN Append(pending, [msg |-> "notify", path |-> widgets["pathInput"]])
                         ELSE pending
    /\ touched' = {ID_GO_PATH_BTN}
    /\ UNCHANGED <<parser, groups, groupMap, _commands, _listsData, phase, uuidCount, fault>>

\* FileSelectModal.cancelButtonPressed: dismiss(event), the press event is
\* what the callback of push_screen gets
cancelButtonPressed ==
    /\ phase = "modal" /\ fault = "none"
    /\ phase' = "dismissed"
    /\ LET event == [t |-> "Button.Pressed", button |-> ID_CANCEL_BTN]
       IN  IF "callback" \in DOMAIN widgets
           THEN LET done == fileSelectDone(widgets["callback"], pending, event)
                IN  /\ pending' = done.posted
                    /\ widgets' = [widgets EXCEPT !["callback"] = done.w]
           ELSE UNCHANGED <<pending, widgets>>
    /\ touched' = {ID_CANCEL_BTN}
    /\ UNCHANGED <<parser, groups, groupMap, _commands, _listsData, uuidCount, fault>>

\* FileSelectModal.pathSelectButtonPressed: "Select" (the handler is `pass`)
pathSelectButtonPressed ==
    /\ phase = "modal" /\ fault = "none"
    /\ touched' = {ID_SELECT_BTN}
    /\ UNCHANGED <<parser, groups, groupMap, _commands, _listsData, pending, phase, widgets,
                   uuidCount, fault>>

\* FileSelectModal.dirTreeFileSelected: a file of the tree was picked
dirTreeFileSelected(parts) ==
    /\ parts \in FsFiles
    /\ Navigate("FileSelected", PyPath(parts), TRUE)

\* FileSelectModal.dirTreeDirSelected: a directory of the tree was picked
dirTreeDirSelected(parts) ==
    /\ parts \in FsDirs
    /\ Navigate("DirectorySelected", PyPath(parts), TRUE)

NextFileSelect ==
    \/ fileSelectOpenButtonPressed
    \/ \E startPath \in {None, PyStr(<<"/", "home">>)} : presentFileSelectModal(startPath)
    \/ \E s \in PathTexts : goToPathOrFail(PyStr(s))
    \/ \E s \in PathTexts : goToPath(PyStr(s))
    \/ dirUpButtonPressed
    \/ \E s \in PathTexts : pathInputChanged(s)
    \/ pathGoButtonPressed
    \/ cancelButtonPressed
    \/ pathSelectButtonPressed
    \/ \E parts \in FsFiles : dirTreeFileSelected(parts)
    \/ \E parts \in FsDirs : dirTreeDirSelected(parts)

SpecFileSelect == InitFileSelect /\ [][NextFileSelect]_vars

----------------------------------------------------------------------------
(* AlertModal.py.  Here widgets holds the attributes of the modal (_message,
   _buttons, _onButtonPressed and, once dismissed, the result), and pending
   is the list of the calls the onButtonPressed callback received. *)

MaxButtons == 3     \* buttons of one alert

CLASS_ALERT_BTN == "alertButton"

ButtonLabels == {<<"OK">>, <<"Cancel">>}
AlertMessages == {<<"Sure?">>, <<"Done.">>}

\* the event Button.Pressed of button i
Pressed(i) == [t |-> "Button.Pressed", button |-> i]

\* AlertModal.__init__: the attributes of the modal
AlertModal(message, buttons, onButtonPressed) ==
    ("_message" :> PyStr(message))
        @@ ("_buttons" :> [i \in 1..Len(buttons) |->
                             [label |-> buttons[i], classes |-> {CLASS_ALERT_BTN}]])
        @@ ("_onButtonPressed" :> onButtonPressed)

InitAlert ==
    /\ parser = Parser("flat")
    /\ groups = Unmapped
    /\ groupMap = <<>>
    /\ _commands = EmptyMap
    /\ _listsData = EmptyMap
    /\ pending = <<>>
    /\ phase = "constructed"
    /\ touched = {}
    /\ uuidCount = 0
    /\ fault = "none"
    /\ \E message \in AlertMessages, n \in 1..MaxButtons,
          onButtonPressed \in {None, [t |-> "callable"]} :
          \E buttons \in [1..n -> ButtonLabels] :
              widgets = AlertModal(message, buttons, onButtonPressed)

\* AlertModal.compose
composeAlert ==
    /\ phase = "constructed"
    /\ phase' = "mounted"
    /\ UNCHANGED <<parser, groups, groupMap, _commands, _listsData, pending, widgets, touched,
                   uuidCount, fault>>

\* AlertModal.alertButtonPressed: button i of the alert was pressed
alertButtonPressed(i) ==
    /\ phase = "mounted"
    /\ i \in 1..Len(widgets["_buttons"])
    /\ CLASS_ALERT_BTN \in widgets["_buttons"][i].classes
    /\ phase' = "dismissed"
    /\ widgets' = widgets @@ ("result" :> Pressed(i))
    /\ UNCHANGED <<parser, groups, groupMap, _commands, _listsData, pending, touched,
                   uuidCount, fault>>

NextAlert ==
    \/ composeAlert
    \/ \E i \in 1..MaxButtons : alertButtonPressed(i)

SpecAlert == InitAlert /\ [][NextAlert]_vars

----------------------------------------------------------------------------
(* Claims about the file select *)

\* C36: presentFileSelectModal opens the file-select modal, and whenever that
\* modal is closed exactly one FileSelectComplete message is posted: with
\* path = None when the user cancelled, the label and the stored path of the
\* widget unchanged, and with a Path when a file was selected, which becomes
\* the stored path.
C36_CompletionProtocol ==
    [][/\ \A startPath \in {None, PyStr(<<"/", "home">>)} :
            presentFileSelectModal(startPath) =>
                /\ fault' = "none" /\ phase' = "modal"
                /\ "callback" \in DOMAIN widgets'
                /\ pending' = pending
       /\ (cancelButtonPressed /\ "callback" \in DOMAIN widgets) =>
            /\ pending' = Append(pending, [msg |-> "FileSelectComplete", path |-> None])
            /\ widgets'["callback"] = widgets["callback"]
       /\ (pathSelectButtonPressed /\ "callback" \in DOMAIN widgets) =>
            /\ phase' = "dismissed"
            /\ pending' = Append(pending, [msg |-> "FileSelectComplete",
                                           path |-> widgets["curPath"]])
            /\ widgets'["callback"]["url"] = widgets["curPath"]
      ]_vars

\* the root of the directory tree
TreeRoot(w) == Resolve(w["dirTree"])

\* the modal is at the place `path` names
MovedTo(path) ==
    LET p == Resolve(path)
    IN  /\ widgets'["curPath"] = PyPath(p)
        /\ widgets'["pathInput"] = PyStr(StrPath(p))
        /\ TreeRoot(widgets') = IF IsDir(p) THEN p ELSE TreeRoot(widgets)
        /\ fault' = fault

\* C37: goToPathOrFail on a path that does not exist raises FileNotFoundError
\* and goToPath on such a path does nothing, and both leave the current path,
\* the root of the directory tree and the text of the path input as they
\* were; on a path that exists the current path and the input text become
\* that path, and the tree root becomes it only if it is a directory.
C37_NavigationErrors ==
    [][\A s \in PathTexts :
          LET path == PyStr(s)
          IN  /\ goToPathOrFail(path) =>
                    IF Exists(Resolve(path)) THEN MovedTo(path)
                    ELSE fault' = "FileNotFoundError" /\ widgets' = widgets
              /\ goToPath(path) =>
                    IF Exists(Resolve(path)) THEN MovedTo(path)
                    ELSE fault' = fault /\ widgets' = widgets
      ]_vars

\* the modal went to the file /home/a.txt, the tree staying at /home, and
\* goToPathOrFail then raised and left all three as they were
C37_Witness ==
    /\ phase = "modal" /\ fault = "FileNotFoundError"
    /\ touched = {"goToPathOrFail"}
    /\ "curPath" \in DOMAIN widgets
    /\ widgets["curPath"] = PyPath(<<"home", "a.txt">>)
    /\ TreeRoot(widgets) = <<"home">>
    /\ widgets["pathInput"] = PyStr(<<"/", "home", "/", "a.txt">>)

----------------------------------------------------------------------------
(* Claims about the alert *)

\* C38: when an AlertModal was constructed with an onButtonPressed callback
\* and one of its buttons is pressed, the callback is called once with the
\* press event and the modal is dismissed with that event.
C38_AlertCallback ==
    [][\A i \in 1..MaxButtons :
          (alertButtonPressed(i) /\ widgets["_onButtonPressed"] # None) =>
              /\ pending' = Append(pending, Pressed(i))
              /\ phase' = "dismissed"
              /\ widgets'["result"] = Pressed(i)
      ]_vars

----------------------------------------------------------------------------
(* Claims about group titles *)

\* the title has a character that is not whitespace
NonBlank(title) == title # None /\ \E i \in 1..Len(title.s) : ~IsSpace(title.s[i])

\* r is t without the whitespace around it
Stripped(t, r) ==
    \E a, b \in 0..Len(t) :
        /\ a + b < Len(t)
        /\ r = SubSeq(t, a + 1, Len(t) - b)
        /\ \A i \in 1..a : IsSpace(t[i])
        /\ \A i \in (Len(t) - b + 1)..Len(t) : IsSpace(t[i])
        /\ ~IsSpace(r[1]) /\ ~IsSpace(r[Len(r)])

\* the text of a generated placeholder
IsPlaceholder(title) == \E n \in 1..Len(UuidTokens) : title = PyStr(uuid4(n))

\* C35: a ParserGroup built with a title that has a non-blank character keeps
\* the title without the whitespace around it and is not tagged; built with
\* no title, an empty or a whitespace-only title it gets a generated
\* placeholder and is tagged (isUuidTitle); the header of a tagged group is
\* "Section N", N its 1-based position among all groups, never the
\* placeholder.
C35_GroupTitles ==
    /\ [][\A isExclusive \in BOOLEAN, title \in GroupTitles :
            ParserGroupInit(isExclusive, title) =>
                LET group == groupMap'[Len(groupMap')]
                IN  IF NonBlank(title)
                    THEN Stripped(title.s, group.title.s) /\ ~group.isUuidTitle
                    ELSE IsPlaceholder(group.title) /\ group.isUuidTitle]_vars
    /\ [](phase = "composing" =>
            \A i \in 1..Len(widgets) :
                groupMap[i].isUuidTitle =>
                    /\ widgets[i] = PyStr(<<"Section", " ">> \o IntDigits(i))
                    /\ widgets[i] # groupMap[i].title)

\* three groups were built, with a title, with none and with a blank one; the
\* headers are the title, "Section 2" and "Section 3"
C35_Witness ==
    /\ phase = "composing" /\ Len(groupMap) = 3 /\ Len(widgets) = 3
    /\ groupMap[1] = [title |-> PyStr(<<"G">>), isUuidTitle |-> FALSE, isExclusive |-> FALSE,
                      reqActions |-> <<>>, optActions |-> <<>>]
    /\ groupMap[2].isUuidTitle /\ groupMap[2].title = PyStr(uuid4(1))
    /\ groupMap[3].isUuidTitle /\ groupMap[3].title = PyStr(uuid4(2))
    /\ widgets = <<PyStr(<<"G">>), PyStr(<<"Section", " ", "2">>),
                   PyStr(<<"Section", " ", "3">>)>>

----------------------------------------------------------------------------
(* Claims about the group resolver *)

\* a key mapParserGroups generated for a mutually exclusive group
IsGeneratedId(key) == key.t = "str" /\ Len(key.s) > 0 /\ key.s[1] = "noTitle"

\* number of places at which an action occurs in a list
Occurrences(l, x) == Cardinality({i \in 1..Len(l) : l[i] = x})

\* C9: in the output of deliniateMappedActions the required and the optional
\* list of every non-exclusive group are disjoint and together hold exactly the
\* actions mapParserGroups placed in the group.
C9_RequiredOptionalPartition ==
    phase = "deliniated" =>
        \A i \in 1..Len(groupMap) :
            ~IsGeneratedId(groupMap[i].key) =>
                LET req == groupMap[i].val.required
                    opt == groupMap[i].val.optional
                    placed == DictGet(groups.groups, groupMap[i].key)
                IN  /\ SeqSet(req) \cap SeqSet(opt) = {}
                    /\ \A a \in SeqSet(placed) \cup SeqSet(req) \cup SeqSet(opt) :
                          Occurrences(req, a) + Occurrences(opt, a) = Occurrences(placed, a)

\* a non-exclusive group that holds a required and an optional action was split
C9_Witness ==
    /\ phase = "deliniated"
    /\ \E i \in 1..Len(groupMap) :
          /\ ~IsGeneratedId(groupMap[i].key)
          /\ groupMap[i].val.required # <<>>
          /\ groupMap[i].val.optional # <<>>

\* C10: every action of the scope is in exactly one group of the map returned
\* by mapParserGroups.
C10_ExactlyOneGroup ==
    (phase = "mapped" /\ groups.raised = "none") =>
        \A a \in SeqSet(parser._actions) :
            Cardinality({i \in 1..Len(groups.groups) : a \in SeqSet(groups.groups[i].val)}) = 1

\* the key mapParserGroups generated for the k-th mutually exclusive group
GroupIdOf(k) == PyStr(<<"noTitle", "_">> \o uuid4(k))

\* the actions argparse put in the parser's own bucket of optionals
DefaultBucket(p) == SeqSet(p._action_groups[2]._group_actions)

\* the action is in the entry of that key
InEntry(gs, key, a) == DictHas(gs, key) /\ a \in SeqSet(DictGet(gs, key))

\* C11: a member of a mutually exclusive group is in the entry generated for
\* the group exactly when argparse put it in the parser's own bucket of
\* optionals; a member declared in a user group is in the entry of that group.
C11_RelocationAsymmetry ==
    (phase = "mapped" /\ groups.raised = "none") =>
        \A k \in 1..Len(parser._mutually_exclusive_groups) :
            \A a \in SeqSet(parser._mutually_exclusive_groups[k]._group_actions) :
                /\ InEntry(groups.groups, GroupIdOf(k), a) <=> a \in DefaultBucket(parser)
                /\ \A g \in 3..Len(parser._action_groups) :
                      a \in SeqSet(parser._action_groups[g]._group_actions)
                      => InEntry(groups.groups, parser._action_groups[g].title, a)

\* an action deliniateMappedActions may enter in a required list by itself
RequiredByItself(a) == Action(a).required \/ Len(Action(a).option_strings.l) = 0

\* C12: in the output of deliniateMappedActions the entry generated for a
\* mutually exclusive group has all its members in the required list and none
\* in the optional list when the group was declared required, and two empty
\* lists otherwise; the required list of any other entry holds only actions
\* that are required or positional.
C12_ExclusiveNotPartitioned ==
    phase = "deliniated" =>
        /\ \A k \in 1..Len(parser._mutually_exclusive_groups) :
              DictHas(groupMap, GroupIdOf(k)) =>
                LET out == DictGet(groupMap, GroupIdOf(k))
                IN  /\ out.optional = <<>>
                    /\ out.required =
                          IF parser._mutually_exclusive_groups[k].required
                          THEN DictGet(groups.groups, GroupIdOf(k))
                          ELSE <<>>
        /\ \A i \in 1..Len(groupMap) :
              ~IsGeneratedId(groupMap[i].key) =>
                 \A a \in SeqSet(groupMap[i].val.required) : RequiredByItself(a)

\* C13: mapParserGroups raises on no scope, so that deliniateMappedActions
\* always gets a group map.
C13_ResolverNeverRaises ==
    phase \in {"mapped", "deliniated"} => groups.raised = "none"

\* C25: every entry that is not the entry of a mutually exclusive group has
\* in required exactly its actions that are declared required or positional,
\* and in optional the others, each in the order of the group; also when the
\* destinations of a user group are those of a mutually exclusive group.
C25_PartitionRule ==
    phase = "deliniated" =>
        \A i \in 1..Len(groupMap) :
            ~IsGeneratedId(groupMap[i].key) =>
                LET actions == DictGet(groups.groups, groupMap[i].key)
                IN  /\ groupMap[i].val.required = SelectSeq(actions, RequiredByItself)
                    /\ groupMap[i].val.optional
                          = SelectSeq(actions, LAMBDA n : ~RequiredByItself(n))

\* the entry "options" after the first loop of mapParserGroups
OptionsBefore(p) ==
    DictGet(MapActionGroups(p._action_groups, [groups |-> <<>>, ownedDests |-> <<>>]).groups,
            OptTitle)

\* the members of exclusive group k that left the entry "options"
Relocated(k) ==
    LET after == IF DictHas(groups.groups, OptTitle)
                 THEN DictGet(groups.groups, OptTitle) ELSE <<>>
    IN  SelectSeq(parser._mutually_exclusive_groups[k]._group_actions,
                  LAMBDA a : Occurrences(after, a) < Occurrences(OptionsBefore(parser), a))

\* C26: the map mapParserGroups returns has an entry for a mutually exclusive
\* group exactly when one of its members or more were relocated, and the entry
\* holds the relocated members; one member is enough, and no entry of a
\* mutually exclusive group is empty.
C26_EmptyExclusiveDropped ==
    (phase = "mapped" /\ groups.raised = "none") =>
        \A k \in 1..Len(parser._mutually_exclusive_groups) :
            IF Relocated(k) = <<>>
            THEN ~DictHas(groups.groups, GroupIdOf(k))
            ELSE /\ DictHas(groups.groups, GroupIdOf(k))
                 /\ DictGet(groups.groups, GroupIdOf(k)) = Relocated(k)

\* two exclusive groups: the one of --a, declared on the parser, is kept with
\* its one member; the one of --b, declared in a user group, is dropped
C26_Witness ==
    /\ phase = "mapped" /\ groups.raised = "none"
    /\ Len(parser._mutually_exclusive_groups) = 2
    /\ parser._mutually_exclusive_groups[1]._group_actions = <<"r.a">>
    /\ parser._mutually_exclusive_groups[2]._group_actions = <<"r.b">>
    /\ DictHas(groups.groups, GroupIdOf(1))
    /\ DictGet(groups.groups, GroupIdOf(1)) = <<"r.a">>
    /\ ~DictHas(groups.groups, GroupIdOf(2))
    /\ InEntry(groups.groups, PyStr(<<"G">>), "r.b")

\* the user declared no argument group and no mutually exclusive group
NoDeclaredGroups(p) == Len(p._action_groups) = 2 /\ p._mutually_exclusive_groups = <<>>

\* C27 as stated: a scope without declared groups resolves to one group that
\* holds all actions of the scope.
C27_SingleDefaultGroup ==
    (groups.raised = "none" /\ NoDeclaredGroups(parser)) =>
        /\ Len(groups.groups) = 1
        /\ groups.groups[1].val = parser._actions

\* C27: a scope without declared groups resolves to the two groups every
\* parser has, "positional arguments" with the actions without option strings
\* and "options" with the others, in this order, each in declaration order.
C27_TwoDefaultGroups ==
    (groups.raised = "none" /\ NoDeclaredGroups(parser)) =>
        /\ Len(groups.groups) = 2
        /\ groups.groups[1]
              = [key |-> PosTitle, val |-> SelectSeq(parser._actions, IsPositional)]
        /\ groups.groups[2]
              = [key |-> OptTitle,
                 val |-> SelectSeq(parser._actions, LAMBDA n : ~IsPositional(n))]

\* the parser "kinds": count under "positional arguments", five options under
\* "options"
C27_Witness ==
    /\ parser.prog = "kinds" /\ NoDeclaredGroups(parser)
    /\ groups.raised = "none"
    /\ DictGet(groups.groups, PosTitle) = <<"count">>
    /\ Len(DictGet(groups.groups, OptTitle)) = 5

----------------------------------------------------------------------------
(* Claims about the snapshot *)

\* the sub-parser is the selected one of its selector, and so on up to the root
RECURSIVE Selected(_, _)
Selected(q, cmds) ==
    \/ q = parser.prog
    \/ \E pane \in PaneOf[q] :
          /\ Action(pane.sel).dest \in DOMAIN cmds
          /\ cmds[Action(pane.sel).dest] = PyStr(pane.key)
          /\ Selected(Container(pane.sel), cmds)

\* the actions that compose() has built
Built == DOMAIN widgets \cup {_listsData[d].action : d \in DOMAIN _listsData}
SelectorNames == {n \in ActionNames : IsSelector(Action(n))}

\* the keys the snapshot is to have: the materialized destinations of the root
\* scope that are no selector, and for a selector that holds the name of one of
\* its sub-parsers its own destination and the keys of that sub-parser
RECURSIVE ReachableDests(_)
ReachableDests(p) ==
    UNION {
        LET action == Action(p._actions[i])
        IN  IF action.dest \notin DOMAIN _commands THEN {}
            ELSE IF ~IsSelector(action) THEN {action.dest}
            ELSE UNION {
                    IF _commands[action.dest] = PyStr(action.choices.items[j].key)
                    THEN {action.dest} \cup ReachableDests(Parser(action.choices.items[j].parser))
                    ELSE {} : j \in 1..Len(action.choices.items)}
        : i \in 1..Len(p._actions)}

\* C2: the key set of getArgs() is the set of reachable destinations; a
\* destination declared only by unselected sub-parsers is no key, and a
\* selector without selection contributes no key.
C2_SnapshotReachability ==
    /\ DOMAIN getArgs = ReachableDests(parser)
    /\ \A name \in ActionNames :
          (/\ Container(name) # parser.prog
           /\ \A other \in ActionNames :
                 Action(other).dest = Action(name).dest => ~Selected(Container(other), _commands))
          => Action(name).dest \notin DOMAIN getArgs

\* foo is selected with its nested selector on the empty sub-parser: z and the
\* destination of bar are stored but no key
C2_Witness ==
    /\ parser.prog = "sub" /\ phase = "mounted"
    /\ _commands[<<"command">>] = PyStr(<<"foo">>)
    /\ _commands[<<"sub">>] = PyStr(<<"flat">>)
    /\ <<"z">> \in DOMAIN _commands
    /\ DOMAIN getArgs = {<<"string">>, <<"command">>, <<"x">>, <<"sub">>}

\* C3: a tabActivated event changes no entry but the selector's, so the values
\* of a sub-parser survive while another one is selected; after the event the
\* snapshot has no key of an unselected sub-parser and reports the entries of
\* the selected one with the values they had before the event.
C3_SwitchPreservesState ==
    [][\A name \in SelectorNames :
       \A j \in 1..Len(Action(name).choices.items) :
          tabActivated(name, j) =>
            LET args == getArgsOf(parser, _commands', _listsData')
                shown == Action(name).choices.items[j].parser
            IN  /\ \A d \in DOMAIN _commands \ {Action(name).dest} :
                      d \in DOMAIN _commands' /\ _commands'[d] = _commands[d]
                /\ _listsData' = _listsData
                /\ \A other \in Built :
                      LET d == Action(other).dest
                      IN  /\ (/\ Container(other) # parser.prog
                              /\ \A o2 \in Built :
                                    Action(o2).dest = d => ~Selected(Container(o2), _commands'))
                             => d \notin DOMAIN args
                          /\ (/\ Container(other) = shown
                              /\ Selected(shown, _commands')
                              /\ IsTyped(Action(other)))
                             => d \in DOMAIN args /\ args[d] = _commands[d]
      ]_vars

\* foo is selected again after bar had been on screen, and x still has the
\* value that was typed
C3_Witness ==
    /\ parser.prog = "sub" /\ phase = "mounted"
    /\ "bar.string" \in touched /\ "foo.x" \in touched
    /\ _commands[<<"command">>] = PyStr(<<"foo">>)
    /\ getArgs[<<"x">>] = PyInt(7)

----------------------------------------------------------------------------
(* Claims about scopes, lists and exclusive groups *)

\* C4: a typed-input change in one scope does not change the value getArgs()
\* reports for a destination of the same name that another scope declares.
C4_ScopesIndependent ==
    [][\A name \in ActionNames : \A raw \in RawTexts :
          inputTypedChanged(name, raw) =>
            \A other \in Built \ {name} :
                (/\ Action(other).dest = Action(name).dest
                 /\ Container(other) # Container(name)
                 /\ Selected(Container(other), _commands)
                 /\ Action(other).dest \in DOMAIN getArgs)
                => /\ Action(other).dest \in DOMAIN getArgsOf(parser, _commands', _listsData')
                   /\ getArgsOf(parser, _commands', _listsData')[Action(other).dest]
                        = getArgs[Action(other).dest]
      ]_vars

\* the position of an item id in the order the ids were drawn
IdIndex(id) == CHOOSE n \in 1..Len(UuidTokens) : uuid4(n) = id

\* ids in the order they were drawn
RECURSIVE ByCreation(_)
ByCreation(ids) ==
    IF ids = {} THEN <<>>
    ELSE LET first == CHOOSE id \in ids : \A o \in ids : IdIndex(id) <= IdIndex(o)
         IN  <<first>> \o ByCreation(ids \ {first})

\* C5: the list getArgs() returns for a list destination holds the stored
\* values of exactly the items alive in the widget record, in the order the
\* items were created (the seeded defaults first, in declaration order); a list
\* no event touched reports its declared default.
C5_ListOrdering ==
    phase = "mounted" =>
        \A d \in DOMAIN _listsData :
            LET alive == DictKeys(_listsData[d].items)
                order == ByCreation(alive)
                action == Action(_listsData[d].action)
            IN  /\ d \in DOMAIN getArgs
                /\ IF _commands[d].t = "dict"
                   THEN /\ DictKeys(_commands[d].items) = alive
                        /\ getArgs[d] =
                             PyList([i \in 1..Len(order) |-> DictGet(_commands[d].items, order[i])])
                   ELSE alive = {} /\ getArgs[d] = None
                /\ (_listsData[d].action \notin touched /\ action.default.t = "list")
                      => getArgs[d] = action.default

\* a, b, c were added, b was removed and d was added: the list is
\* [value(a), value(c), value(d)]
C5_Witness ==
    /\ parser.prog = "nums" /\ phase = "mounted" /\ fault = "none"
    /\ <<"nums">> \in DOMAIN _listsData
    /\ DictKeys(_listsData[<<"nums">>].items) = {uuid4(1), uuid4(3), uuid4(4)}
    /\ _commands[<<"nums">>].t = "dict"
    /\ DictGet(_commands[<<"nums">>].items, uuid4(1)) = PyInt(7)
    /\ DictGet(_commands[<<"nums">>].items, uuid4(4)) = None
    /\ getArgs[<<"nums">>].l[1] = PyInt(7)
    /\ Len(getArgs[<<"nums">>].l) = 3

\* C8: getArgs() reports at most one member of a required mutually exclusive
\* group with a value other than None.
C8_RequiredMutexAtMostOne ==
    phase = "mounted" =>
        \A g \in 1..Len(parser._mutually_exclusive_groups) :
            LET group == parser._mutually_exclusive_groups[g]
                set == {a \in SeqSet(group._group_actions) :
                          /\ Action(a).dest \in DOMAIN getArgs
                          /\ getArgs[Action(a).dest] # None}
            IN  group.required => Cardinality(set) <= 1

----------------------------------------------------------------------------
(* Claims about the round trip with the parser.  ParseArgs is what
   ArgumentParser.parse_args returns for the command line that stands for the
   state of the widgets: an action the user touched is on it with the value its
   widget shows, any other action is left to its default. *)

\* the conversion argparse applies to one word of the command line
Convertible(type, word) ==
    /\ word # <<>>
    /\ CASE type = "int" -> IntParses(word)
         [] type = "float" -> FloatParses(word)
         [] OTHER -> TRUE
Convert(type, word) ==
    CASE type = "int" -> IntOf(word)
      [] type = "float" -> FloatOf(word)
      [] OTHER -> PyStr(word)

\* the words the items of a list show
Words(name) ==
    LET items == _listsData[Action(name).dest].items
    IN  [i \in 1..Len(items) |-> items[i].val.value]

\* the action is on the command line
Given(name) ==
    /\ name \in touched
    /\ IsSwitch(Action(name)) => widgets[name] = PyBool(Action(name).cls = "_StoreTrueAction")

\* the command line has a well-formed occurrence of the action, or may omit it
WellFormed(name) ==
    LET action == Action(name)
    IN  IF ~Given(name) THEN ~action.required
        ELSE CASE IsSwitch(action) -> TRUE
               [] IsSelector(action) -> TRUE
               [] IsDropdown(action) -> widgets[name] \in SeqSet(action.choices.l)
               [] IsList(action) ->
                    /\ \A i \in 1..Len(Words(name)) : Convertible(action.type, Words(name)[i])
                    /\ action.nargs = PyStr(<<"+">>) => Len(Words(name)) > 0
               [] IsTyped(action) -> Convertible(action.type, widgets[name].s)
               [] OTHER -> FALSE

\* the value parse_args stores for the action
CliValue(name) ==
    LET action == Action(name)
    IN  IF ~Given(name) THEN action.default
        ELSE CASE IsSwitch(action) -> PyBool(action.cls = "_StoreTrueAction")
               [] IsSelector(action) -> widgets[name]
               [] IsDropdown(action) -> widgets[name]
               [] IsList(action) ->
                    PyList([i \in 1..Len(Words(name)) |-> Convert(action.type, Words(name)[i])])
               [] IsTyped(action) -> Convert(action.type, widgets[name].s)

\* the sub-parser the command line names for a selector
Chosen(name) ==
    LET items == Action(name).choices.items
    IN  Parser(items[CHOOSE j \in 1..Len(items) : PyStr(items[j].key) = widgets[name]].parser)

\* the selector of a parser that is on the command line
GivenSelectors(p) == {n \in SeqSet(p._actions) : IsSelector(Action(n)) /\ Given(n)}

\* the state of the widgets stands for a command line the parser accepts
RECURSIVE Expressible(_)
Expressible(p) ==
    /\ \A n \in SeqSet(p._actions) : WellFormed(n)
    /\ \A g \in 1..Len(p._mutually_exclusive_groups) :
          LET group == p._mutually_exclusive_groups[g]
              given == {n \in SeqSet(group._group_actions) : Given(n)}
          IN  /\ Cardinality(given) <= 1
              /\ group.required => Cardinality(given) = 1
    /\ \A n \in GivenSelectors(p) : Expressible(Chosen(n))

\* parse_args: the defaults and the given values of the parser, overlaid with
\* the namespace of the sub-parser the command line names
RECURSIVE ParseArgs(_)
ParseArgs(p) ==
    LET own == {n \in SeqSet(p._actions) : CliValue(n) # Suppress}
        base == [d \in {Action(n).dest : n \in own} |->
                    CliValue(CHOOSE n \in own : Action(n).dest = d)]
        sub == IF GivenSelectors(p) = {} THEN EmptyMap
               ELSE ParseArgs(Chosen(CHOOSE n \in GivenSelectors(p) : TRUE))
    IN  [d \in DOMAIN base \cup DOMAIN sub |-> IF d \in DOMAIN sub THEN sub[d] ELSE base[d]]

\* C1: whenever the state of the widgets stands for a command line, getArgs()
\* maps every destination of the parser's own result to the value the parser
\* gives it, untouched destinations included.
C1_RoundTrip ==
    (phase = "mounted" /\ fault = "none" /\ Expressible(parser)) =>
        \A d \in DOMAIN ParseArgs(parser) :
            d \in DOMAIN getArgs /\ getArgs[d] = ParseArgs(parser)[d]

----------------------------------------------------------------------------
(* Claims about getArgs of src/src *)

\* C6: a call of getArgs directly after a call of getArgs returns a mapping
\* equal to the one the first call returned.
C6_SnapshotIdempotent ==
    [][getArgsSrc => getArgsSrcOf(_commands', _listsData') = _commands']_vars

\* getArgs was called while the list held its two seeded items and one added item
C6_Witness ==
    /\ parser.prog = "tags" /\ phase = "mounted"
    /\ <<"tags">> \in DOMAIN _listsData
    /\ Len(_listsData[<<"tags">>].items) = 3
    /\ _commands[<<"tags">>] = PyList(<<PyStr(<<"a">>), PyStr(<<"b">>), None>>)

\* C7: a call of getArgs leaves _commands and _listsData as they were.
C7_SnapshotReadOnly ==
    [][getArgsSrc => UNCHANGED <<_commands, _listsData>>]_vars

----------------------------------------------------------------------------
(* Claims about the handlers *)

\* the number Python reads from a text the user can leave, None when int() or
\* float() rejects the text
NumberOf(type, raw) ==
    CASE type = "int" /\ raw = <<"7">> -> PyInt(7)
      [] type = "float" /\ raw = <<"7">> -> PyFloat(7, 0)
      [] type = "float" /\ raw = <<"7", ".", "5">> -> PyFloat(75, 1)
      [] OTHER -> None

IsNumeric(action) == action.type \in {"int", "float"}

\* C14: a change of a typed input of an integer or float destination stores the
\* number the text converts to, or None when it does not convert, raises
\* nothing and changes no other entry; a change of an item of a list of that
\* kind does the same to the item.
C14_NumericCoercion ==
    [][/\ \A name \in ActionNames : \A raw \in RawTexts :
            (inputTypedChanged(name, raw) /\ IsNumeric(Action(name))) =>
                /\ fault' = "none"
                /\ _commands' = MapSet(_commands, Action(name).dest,
                                       NumberOf(Action(name).type, raw))
       /\ \A d \in ListDests : \A i \in 1..MaxUuid : \A raw \in RawTexts :
            (inputTypedInListChanged(d, i, raw) /\ IsNumeric(Action(_listsData[d].action))) =>
                /\ fault' = "none"
                /\ _commands[d].t = "dict"
                /\ _commands' = [_commands EXCEPT ![d] =
                      PyDict(DictSet(@.items, _listsData[d].items[i].key,
                                     NumberOf(Action(_listsData[d].action).type, raw)))]
      ]_vars

\* the number of items a list of fixed arity may hold, 0 for any other list
Arity(action) == IF action.nargs.t = "int" THEN action.nargs.i ELSE 0

SelectValues(action) == SeqSet(action.choices.l) \cup {Blank}

\* C15: a dropdown change to a value that is not one of the declared choices
\* of the destination, the blank value of the widget included, leaves the
\* entries unchanged and raises nothing; a change to a declared choice stores it.
C15_ChoiceValidated ==
    [][\A name \in ActionNames :
          IsDropdown(Action(name)) =>
            \A value \in SelectValues(Action(name)) :
               inputDropdownChanged(name, value) =>
                 /\ fault' = "none"
                 /\ _commands' = IF value \in SeqSet(Action(name).choices.l)
                                 THEN MapSet(_commands, Action(name).dest, value)
                                 ELSE _commands
      ]_vars

\* C17: a remove event for an item that exists deletes that item and no other
\* from the entry and from the widget record; a remove event for an item id
\* that is unknown (already removed) changes nothing and raises nothing.
C17_RemoveListItem ==
    [][\A d \in ListDests :
          /\ \A i \in 1..MaxUuid :
                listRemoveButtonPressed(d, i) =>
                   LET id == _listsData[d].items[i].key
                   IN  /\ fault' = "none"
                       /\ _listsData' = [_listsData EXCEPT ![d].items = DictDel(@, id)]
                       /\ _commands[d].t = "dict"
                       /\ _commands' = [_commands EXCEPT ![d] = PyDict(DictDel(@.items, id))]
          /\ \A k \in 1..MaxUuid :
                listRemoveButtonPressedAgain(d, uuid4(k)) =>
                   /\ fault' = "none"
                   /\ UNCHANGED <<_commands, _listsData>>
      ]_vars

\* an action of the same parser that has the destination of `name` and was
\* materialized before it
EarlierInScope(name) ==
    LET scope == Parser(Container(name))._actions
    IN  {o \in SeqSet(scope) :
            /\ o # name
            /\ Action(o).dest = Action(name).dest
            /\ o \in DOMAIN widgets}

\* C19: materializing an action whose destination an earlier action of the
\* same scope has registered raises a fault and leaves the entries as they are.
C19_DuplicateRegistrationFails ==
    [][(/\ _buildActionInputs
        /\ EarlierInScope(Head(pending)) # {}
        /\ Action(Head(pending)).dest \in DOMAIN _commands)
          => (fault' # "none" /\ _commands' = _commands)
      ]_vars

\* C20: while no destination is materialized, getArgs() is the empty mapping,
\* for every parser tree, the ones with sub-parsers included.
C20_SnapshotBeforeMaterialization ==
    DOMAIN _commands = {} => getArgs = EmptyMap

\* an Interface on a parser with sub-parsers and regular actions, constructed
\* and not composed yet
C20_Witness ==
    /\ phase = "constructed"
    /\ parser.prog = "sub"
    /\ DOMAIN _commands = {}
    /\ _getValidDests(parser, _commands) = <<<<"string">>>>
    /\ getArgs = EmptyMap

\* a step of one of the handlers on a destination that was never materialized
OnUnmaterialized ==
    \E id \in UnknownDests :
       \/ \E value \in BOOLEAN : inputSwitchChangedOn(id, value)
       \/ \E value \in {PyStr(<<"fast">>), PyStr(<<"slow">>), Blank} :
             inputDropdownChangedOn(id, value)
       \/ \E raw \in RawTexts, inputType \in InputTypes : inputTypedChangedOn(id, raw, inputType)
       \/ \E k \in 1..MaxUuid, raw \in RawTexts : inputTypedInListChangedOn(id, uuid4(k), raw)
       \/ listAddButtonPressedOn(id)
       \/ \E k \in 1..MaxUuid : listRemoveButtonPressedOn(id, uuid4(k))
       \/ \E key \in {<<"foo">>, <<"bar">>} : tabActivatedOn(id, key)

\* C18: every handler applied to a destination that was never materialized
\* signals a failure and leaves the entries and the list records unchanged;
\* none of them creates an entry for it.
C18_FailFastUnmaterialized ==
    [][OnUnmaterialized => (fault' # "none" /\ UNCHANGED <<_commands, _listsData>>)]_vars

----------------------------------------------------------------------------
(* Claims about materialization *)

\* the kinds _buildActionInputs has a widget for
Recognized(action) ==
    IsSwitch(action) \/ IsSelector(action) \/ IsDropdown(action) \/ IsList(action)
        \/ IsTyped(action)

\* C22: materializing an action of none of the recognized kinds (store_const,
\* append, count) gives it a text input and raises nothing, and compose goes
\* on with the next action: no such action is left without a widget.
C22_UnrecognizedKindFallback ==
    [][(_buildActionInputs /\ ~Recognized(Action(Head(pending))))
          => /\ Head(pending) \in DOMAIN widgets'
             /\ widgets'[Head(pending)].t = "str"
             /\ fault' = "none"
             /\ pending' = Tail(pending)
      ]_vars

\* the value of an entry, the items of a list taken in their order
EntryValue(cmds, lists, d) ==
    IF d \in DOMAIN lists /\ cmds[d].t = "dict"
    THEN PyList(DictValues(cmds[d].items))
    ELSE cmds[d]

\* C23: right after an action is materialized the entry of its destination
\* holds the declared default, the defaults 0, 0.0, False, "" and [] included,
\* and None only when no default was declared.
C23_SeededFromDefault ==
    [][_buildActionInputs =>
          LET action == Action(Head(pending))
          IN  EntryValue(_commands', _listsData', action.dest) = action.default
      ]_vars

\* the help action and the action of the gui flag
IsHelpOrGui(name) ==
    \/ Action(name).cls = "_HelpAction"
    \/ GuiFlag \in SeqSet(Action(name).option_strings.l)

\* C24: _onlyValidActions yields the actions of the parser without the help
\* action and the action of the gui flag, and the destination of neither is
\* ever in _commands or in getArgs().
C24_ActionFiltering ==
    /\ _onlyValidActions(parser._actions)
          = SelectSeq(parser._actions, LAMBDA n : ~IsHelpOrGui(n))
    /\ \A n \in SeqSet(parser._actions) :
          IsHelpOrGui(n) => /\ Action(n).dest \notin DOMAIN _commands
                            /\ Action(n).dest \notin DOMAIN getArgs

\* the values the entry of a selector may take: None and the names of its
\* sub-parsers
SelectorStates(name) ==
    {None} \cup {PyStr(Action(name).choices.items[j].key) :
                    j \in 1..Len(Action(name).choices.items)}

C29_RenderedEqualsStored ==
    [][_buildActionInputs =>
          LET name == Head(pending)
              action == Action(name)
              entry == _commands'[action.dest]
          IN  /\ IsSwitch(action) => widgets'[name] = entry
              /\ IsDropdown(action) => widgets'[name] = entry
              /\ IsTyped(action) =>
                    widgets'[name] = PyStr(IF entry = None THEN <<>> ELSE Str(entry))
      ]_vars

\* listAddButtonPressed on list d: the entries, the list records and the new id
AddListItem(cmds, lists, n, d) ==
    LET buttonId == uuid4(n + 1)
        built == _buildListInputItem(cmds, buttonId, Action(lists[d].action), None)
    IN  [cmds |-> built.cmds,
         lists |-> [lists EXCEPT ![d].items = DictSet(@, buttonId, built.item)],
         id |-> buttonId]

\* listRemoveButtonPressed on the button named `name`
RemoveListItem(cmds, lists, name) ==
    LET parts == Split(name, "_")
        same == [cmds |-> cmds, lists |-> lists]
    IN  IF Len(parts) # 2 THEN same @@ [fault |-> "ValueError"]
        ELSE IF parts[1] \notin DOMAIN cmds THEN same @@ [fault |-> "KeyError"]
        ELSE IF cmds[parts[1]].t = "none" THEN same @@ [fault |-> "AttributeError"]
        ELSE IF cmds[parts[1]].t # "dict" THEN same @@ [fault |-> "TypeError"]
        ELSE IF ~DictHas(cmds[parts[1]].items, parts[2])
        THEN same @@ [fault |-> "KeyError"]
        ELSE LET popped == [cmds EXCEPT ![parts[1]] = PyDict(DictDel(@.items, parts[2]))]
             IN  IF parts[1] \notin DOMAIN lists \/ ~DictHas(lists[parts[1]].items, parts[2])
                 THEN [cmds |-> popped, lists |-> lists, fault |-> "KeyError"]
                 ELSE [cmds |-> popped,
                       lists |-> [lists EXCEPT ![parts[1]].items = DictDel(@, parts[2])],
                       fault |-> "none"]

\* C30: on every list on screen, an add followed by the remove of the item
\* that was added raises nothing and leaves getArgs() as it was, also on a list
\* without default and without items.
C30_AddThenRemoveIdentity ==
    (Live /\ uuidCount < MaxUuid) =>
        \A d \in ListIds :
            LET added == AddListItem(_commands, _listsData, uuidCount, d)
                item == DictGet(added.lists[d].items, added.id)
                removed == RemoveListItem(added.cmds, added.lists, item.name)
            IN  /\ removed.fault = "none"
                /\ getArgsOf(parser, removed.cmds, removed.lists) = getArgs

------------------------------------------------------------\* the item ids the value store holds for list destination d
StoredIds(cmds, d) ==
    IF d \in DOMAIN cmds /\ cmds[d].t = "dict" THEN DictKeys(cmds[d].items) ELSE {}

\* a value-change event of a list item, in time or late
ListItemChange ==
    \/ \E d \in ListDests, i \in 1..MaxUuid, raw \in RawTexts : inputTypedInListChanged(d, i, raw)
    \/ \E d \in ListDests, k \in 1..MaxUuid, raw \in LateTexts :
          inputTypedInListChangedLate(d, uuid4(k), raw)

\* C31: after any sequence of add, remove and list-item value-change events
\* (a value change that is handled after its item was removed included), the
\* item ids in _commands[dest] are the item ids in _listsData[dest], for every
\* list destination; a value change never creates an item.
C31_ListStoresInStep ==
    /\ [](\A d \in DOMAIN _listsData :
            StoredIds(_commands, d) = DictKeys(_listsData[d].items))
    /\ [][ListItemChange =>
            \A d \in DOMAIN _listsData : StoredIds(_commands', d) = StoredIds(_commands, d)]_vars

\* C32: the composite name an item gets at creation (dest + "_" + id) is
\* decoded by the value-change and remove handlers (name.split("_")) into the
\* same pair of destination and item id, for every list destination, the ones
\* with "_" in their name included.
C32_ItemAddressRoundTrip ==
    \A d \in DOMAIN _listsData :
        \A i \in 1..Len(_listsData[d].items) :
            LET item == _listsData[d].items[i]
            IN  Split(item.val.name, "_") = <<d, item.key>>

\* C33: an InputList of an action with integer nargs N, constructed with a
\* default list of k values, 0 <= k <= N, has exactly N inputs after
\* _prepareItems: the k defaults first, in their order, then N - k inputs
\* without a value.
C33_FixedArityFilled ==
    (phase = "constructed" /\ "defaults" \in DOMAIN widgets) =>
        LET action == Action(parser._actions[1])
            defaults == widgets["defaults"]
            inputs == _listsData[action.dest].items
            values == _commands[action.dest].items
        IN  (action.nargs.t = "int" /\ defaults.t = "list"
                /\ Len(defaults.l) <= action.nargs.i) =>
                /\ Len(inputs) = action.nargs.i
                /\ Len(values) = action.nargs.i
                /\ \A i \in 1..Len(values) :
                      /\ values[i].key = inputs[i].key
                      /\ values[i].val = IF i <= Len(defaults.l) THEN defaults.l[i] ELSE None

\* C34: no operation of the Interface (materialization, event handlers,
\* getArgs) changes the parser, its action groups, the default value of an
\* action or the group map the resolver produced; the default list of a list
\* action has the same elements after any sequence of add, remove and set
\* events.
C34_SchemaReadOnly ==
    /\ [](\A a \in DOMAIN parser.defaults : parser.defaults[a] = Action(a).default)
    /\ [][parser' = parser /\ groups' = groups /\ groupMap' = groupMap]_vars

\* the list of --tags after a remove, an add and a set event: the entry has
\* left the default ["a", "b"], the default itself has not changed
C34_Witness ==
    /\ parser.prog = "tags" /\ Live
    /\ "tags" \in touched
    /\ uuidCount = 3
    /\ <<"tags">> \in DOMAIN _listsData
    /\ DictKeys(_listsData[<<"tags">>].items) = {uuid4(2), uuid4(3)}
    /\ _commands[<<"tags">>].t = "dict"
    /\ DictHas(_commands[<<"tags">>].items, uuid4(3))
    /\ DictGet(_commands[<<"tags">>].items, uuid4(3)) = PyStr(<<"7">>)
    /\ getArgs[<<"tags">>] # Action("tags").default
    /\ parser.defaults["tags"] = PyList(<<PyStr(<<"a">>), PyStr(<<"b">>)>>)

----------------
(* Claims about the Wrapper *)

\* C21: parseArgs constructs the Interface exactly when the gui flag is among
\* the words of the command line, whatever the name of the flag; without the
\* flag no Interface is constructed and the result is the parser's own.
C21_EscapeHatch ==
    [][parseArgs =>
         LET present == widgets["guiFlag"].s \in SeqSet(pending)
         IN  /\ phase' = "constructed" <=> present
             /\ ~present => /\ phase' = "cli"
                            /\ groups' = Unmapped
                            /\ _commands' = ParseArgsCli(parser, pending)
      ]_vars

====
